---- MODULE Spec2Model ----
(***************************************************************************)
(* Verification model of the Sagittarius-ENTJ snapshot container:          *)
(*   - AESGCMEncryptor (src/src/infrastructure/encryption)                 *)
(*   - JsonSnapshotRepository (src/src/infrastructure/persistence)         *)
(*   - FileEntry / DirectorySnapshot (src/src/domain/models)               *)
(*   - ExtensionFilter (src/src/domain/services)                           *)
(*   - ScanDirectoryUseCase / RecreateDirectoryUseCase and the             *)
(*     FileSystemService (src/src/application, infrastructure/file_system) *)
(*   - AsyncWorker, the view models and CopyWidget (src/src/presentation)  *)
(*                                                                         *)
(* Byte strings are sequences of 0..255, Python str values are sequences   *)
(* of Unicode code points.  A call either returns or raises; both are      *)
(* recorded as an outcome record [kind, exc, msg, value].                  *)
(***************************************************************************)
EXTENDS Integers, Sequences, FiniteSets, TLC

VARIABLES
    pc,        \* encryptor scenario: "start" | "encrypted" | "tampered" | "decrypted"
    plain,     \* plaintext handed to encrypt
    encK,      \* password handed to encrypt
    env,       \* the envelope bytes (as returned by encrypt, or after a bit flip)
    flip,      \* NoFlip, or [off |-> 0-based byte offset, bit |-> 0..7]
    decK,      \* password handed to decrypt
    res,       \* outcome of decrypt
    env2,      \* the envelope a second encrypt call returned for the same input
    res2,      \* outcome of decrypt on env2
    rpc,       \* repository scenario: "init" | "building" | "saved" | "planted" | "loaded"
    ossep,     \* os.sep of the host: '/' (47) or '\\' (92)
    snap,      \* the DirectorySnapshot being built and saved
    fs,        \* the file system at the container path
    savePw,    \* password handed to save
    saveRes,   \* outcome of save
    loadPw,    \* password handed to load
    loadRes,   \* result of repository.load: [o, decrypt_called, json_parsed]
    execRes,   \* outcome of LoadSnapshotUseCase.execute, which made that load call
    epc,       \* file entry scenario: "none" | "made" | "failed"
    eData,     \* the dict handed to FileEntry.from_dict (null: constructor call)
    born,      \* the content handed to the constructor or to from_dict
    ent,       \* the FileEntry
    eRes,      \* outcome of the call that made the entry
    checked,   \* the last validate_checksum call: [called, result, content]
    ePath,     \* the path handed to the constructor, by the caller or by from_dict
    filt,      \* extension filter scenario: ExtensionFilter._extensions
    live,      \* the normalized extensions added and not removed, cleared or replaced since
    fLast,     \* the last ExtensionFilter call: [op, arg, before]
    spc,       \* scan and recreate scenario: "idle" | "scanned" | "recreated"
    tree,      \* the directory tree handed to the scan
    scanExt,   \* the extensions of the ScanRequest
    scan,      \* what the scan did: [o, progress, log]
    recIn,     \* what recreate was handed: [snapshot, output_path, refused]
    rec,       \* what recreate did: [o, progress, log, disk]
    upc,       \* view scenario: "idle" | "running"
    vm,        \* the view model in use: "none" | "copy" | "paste"
    workers,   \* the AsyncWorkers started, in order: [op, done, o, emitted]
    events,    \* worker signals queued for the view model's thread
    active,    \* the values operation_active emitted, in order
    handled,   \* the handlers of the view model and the widget reached, in order
    widget,    \* the CopyWidget: [clicked, checked, dialog, password, raised]
    container  \* the container file the auto-save of the copy workflow wrote

cryptoVars == <<pc, plain, encK, env, flip, decK, res, env2, res2>>

repoVars == <<rpc, ossep, snap, fs, savePw, saveRes, loadPw, loadRes, execRes>>

entryVars == <<epc, eData, born, ent, eRes, checked, ePath>>

filterVars == <<filt, live, fLast>>

filesVars == <<spc, tree, scanExt, scan, recIn, rec>>

uiVars == <<upc, vm, workers, events, active, handled, widget, container>>

vars == <<pc, plain, encK, env, flip, decK, res, env2, res2,
          rpc, ossep, snap, fs, savePw, saveRes, loadPw, loadRes, execRes,
          epc, eData, born, ent, eRes, checked, ePath,
          filt, live, fLast,
          spc, tree, scanExt, scan, recIn, rec,
          upc, vm, workers, events, active, handled, widget, container>>

(***************************************************************************)
(* Bounds of the model.                                                    *)
(***************************************************************************)
MaxPlainLen == 1

\* byte values the plaintexts of the encryptor scenario are built from
PlainBytes == {0, 255}

\* passwords (str, as code points): "", "a", "a\x00", "e-acute"
Passwords == { <<>>, <<97>>, <<97, 0>>, <<233>> }

\* seeds of the values secrets.token_bytes may return
SaltSeeds == {0, 200}
NonceSeeds == {7, 130}

\* repository scenario: files and directories added to one snapshot
MaxFiles == 2
MaxDirs == 2

\* root_path values: "" and "/r"
RootPaths == { <<>>, << 47, 114 >> }

\* file paths: "a" and a path of d, backslash, e-acute, double quote
FilePaths == { << 97 >>, << 100, 92, 233, 34 >> }

\* file contents
Contents == { <<>>, << 255, 10 >> }

\* directory paths handed to add_directory: "d", ".", and s, backslash, t
DirPaths == { << 100 >>, << 46 >>, << 115, 92, 116 >> }

\* the value datetime.now() returns
ClockTicks == {12}

(***************************************************************************)
(* Generic helpers on sequences and bytes.                                 *)
(***************************************************************************)
RECURSIVE SeqsUpTo(_, _)
SeqsUpTo(S, n) ==
    IF n = 0 THEN { <<>> }
    ELSE LET shorter == SeqsUpTo(S, n - 1)
         IN shorter \cup { Append(s, x) : s \in shorter, x \in S }

Take(s, n) == SubSeq(s, 1, IF n < Len(s) THEN n ELSE Len(s))

\* Python slice s[a:b] with 0-based a, b (a, b >= 0), clipped to the length
Slice(s, a, b) ==
    LET hi == IF b < Len(s) THEN b ELSE Len(s)
    IN IF a >= hi THEN <<>> ELSE SubSeq(s, a + 1, hi)

\* Python slice s[a:]
SliceFrom(s, a) == Slice(s, a, Len(s))

\* sum of s[lo..hi], and the position-weighted sum of s[lo..hi] (halving
\* keeps the evaluation shallow on long sequences)
RECURSIVE SumRange(_, _, _)
SumRange(s, lo, hi) ==
    IF lo > hi THEN 0
    ELSE IF lo = hi THEN s[lo]
    ELSE LET mid == (lo + hi) \div 2
         IN SumRange(s, lo, mid) + SumRange(s, mid + 1, hi)

RECURSIVE WSumRange(_, _, _)
WSumRange(s, lo, hi) ==
    IF lo > hi THEN 0
    ELSE IF lo = hi THEN lo * s[lo]
    ELSE LET mid == (lo + hi) \div 2
         IN WSumRange(s, lo, mid) + WSumRange(s, mid + 1, hi)

SumTo(s, n) == SumRange(s, 1, n)

WSumTo(s, n) == WSumRange(s, 1, n)

Pow2(b) == CASE b = 0 -> 1 [] b = 1 -> 2 [] b = 2 -> 4 [] b = 3 -> 8
             [] b = 4 -> 16 [] b = 5 -> 32 [] b = 6 -> 64 [] b = 7 -> 128

\* bitwise exclusive or of two bytes, bit by bit
XorByte(a, b) ==
    ((a + b) % 2)
    + 2 * (((a \div 2) + (b \div 2)) % 2)
    + 4 * (((a \div 4) + (b \div 4)) % 2)
    + 8 * (((a \div 8) + (b \div 8)) % 2)
    + 16 * (((a \div 16) + (b \div 16)) % 2)
    + 32 * (((a \div 32) + (b \div 32)) % 2)
    + 64 * (((a \div 64) + (b \div 64)) % 2)
    + 128 * (((a \div 128) + (b \div 128)) % 2)

(***************************************************************************)
(* Outcomes of a call.                                                     *)
(***************************************************************************)
NoValue == <<>>

Return(v) == [kind |-> "return", exc |-> "", msg |-> "", value |-> v]

Raise(e, m) == [kind |-> "raise", exc |-> e, msg |-> m, value |-> NoValue]

(***************************************************************************)
(* Exception hierarchy.  exceptions.py defines the classes below; the      *)
(* three encryption classes are imported from it by the encryptor, the     *)
(* repository and the tests but their definitions are not in the file.     *)
(***************************************************************************)
ExcParent(c) ==
    CASE c = "SagittariusException" -> "Exception"
      [] c = "DomainException"      -> "SagittariusException"
      [] c = "ValidationError"      -> "DomainException"
      [] c = "FileSystemError"      -> "SagittariusException"
      [] c = "EncodingError"        -> "SagittariusException"
      [] c = "RepositoryError"      -> "SagittariusException"
      [] c = "SnapshotNotFoundError" -> "RepositoryError"
      [] c = "InvalidSnapshotError" -> "ValidationError"
      [] OTHER -> ""

\* EncryptionError, DecryptionError, InvalidPasswordError: InvalidPasswordError
\* is a subtype of DecryptionError (spec section 7; the unit test
\* test_decrypt_corrupted_data_raises_decryption_error expects a tag failure
\* to be caught by pytest.raises(DecryptionError)).
CryptoExcParent(c) ==
    CASE c = "EncryptionError"      -> "SagittariusException"
      [] c = "DecryptionError"      -> "SagittariusException"
      [] c = "InvalidPasswordError" -> "DecryptionError"
      [] OTHER -> ""

\* Python built-in and library exception classes used by the modelled code
BuiltinExcParent(c) ==
    CASE c = "ValueError"         -> "Exception"
      [] c = "UnicodeDecodeError" -> "ValueError"
      [] c = "JSONDecodeError"    -> "ValueError"
      [] c = "binascii.Error"     -> "ValueError"
      [] c = "TypeError"          -> "Exception"
      [] c = "KeyError"           -> "Exception"
      [] c = "AttributeError"     -> "Exception"
      [] c = "OSError"            -> "Exception"
      [] c = "PermissionError"    -> "OSError"
      [] c = "InvalidTag"         -> "Exception"
      [] OTHER -> ""

ParentOf(c) ==
    IF ExcParent(c) # "" THEN ExcParent(c)
    ELSE IF CryptoExcParent(c) # "" THEN CryptoExcParent(c)
    ELSE BuiltinExcParent(c)

\* isinstance(exception of class c, cls)
RECURSIVE IsInstance(_, _)
IsInstance(c, cls) ==
    IF c = cls THEN TRUE
    ELSE IF ParentOf(c) = "" THEN FALSE
    ELSE IsInstance(ParentOf(c), cls)

(***************************************************************************)
(* Text encoding: str.encode('utf-8') / bytes.decode('utf-8').             *)
(***************************************************************************)
Utf8EncodeChar(c) ==
    IF c < 128 THEN << c >>
    ELSE IF c < 2048 THEN << 192 + (c \div 64), 128 + (c % 64) >>
    ELSE << 224 + (c \div 4096), 128 + ((c \div 64) % 64), 128 + (c % 64) >>

RECURSIVE Utf8EncodeRange(_, _, _)
Utf8EncodeRange(s, lo, hi) ==
    IF lo > hi THEN <<>>
    ELSE IF lo = hi THEN Utf8EncodeChar(s[lo])
    ELSE LET mid == (lo + hi) \div 2
         IN Utf8EncodeRange(s, lo, mid) \o Utf8EncodeRange(s, mid + 1, hi)

Utf8Encode(s) == Utf8EncodeRange(s, 1, Len(s))

(***************************************************************************)
(* AESGCMEncryptor: file format constants.                                 *)
(***************************************************************************)
MAGIC_HEADER == << 83, 65, 71, 69, 78, 67 >>   \* b"SAGENC"
VERSION == 1
SALT_SIZE == 32
NONCE_SIZE == 12
KEY_SIZE == 32
TAG_SIZE == 16
HMAC_BLOCK_SIZE == 64

\* secrets.token_bytes(n): the values the random source may return are drawn
\* from a bounded family, one value per seed
TokenBytes(n, seed) == [i \in 1..n |-> (seed + 3 * i) % 256]

generate_salt == { TokenBytes(SALT_SIZE, b) : b \in SaltSeeds }

generate_nonce == { TokenBytes(NONCE_SIZE, b) : b \in NonceSeeds }

\* HMAC prepares its key by right-padding it with zero bytes to the block
\* size of the hash (keys longer than the block are hashed first; every
\* password of the model is shorter).
HmacKeyBlock(keyBytes) ==
    [i \in 1..HMAC_BLOCK_SIZE |-> IF i <= Len(keyBytes) THEN keyBytes[i] ELSE 0]

\* _derive_key: PBKDF2-HMAC-SHA256(password.encode('utf-8'), salt).  The
\* derived key is a function of the HMAC key block and the salt only; it is
\* kept as that pair (PBKDF2 taken as collision free on the pair).
derive_key(password, salt) ==
    [block |-> HmacKeyBlock(Utf8Encode(password)), salt |-> salt]

(***************************************************************************)
(* AESGCM(key).encrypt / .decrypt of the cryptography package.  A stream   *)
(* cipher (ciphertext length = plaintext length) followed by a 16-byte     *)
(* tag that is a function of key, nonce and ciphertext; decrypt recomputes *)
(* the tag and raises InvalidTag when it differs.  The tag function stands *)
(* for GHASH: it changes whenever one bit of the salt, nonce or ciphertext *)
(* changes and whenever the HMAC key block changes.                        *)
(***************************************************************************)
KeyMix(key) == (SumTo(key.block, HMAC_BLOCK_SIZE) + SumTo(key.salt, Len(key.salt))) % 256

\* the first keystream byte; byte i of the keystream is GcmKeystream(k0, i)
GcmCounter0(key, nonce) == (KeyMix(key) + SumTo(nonce, Len(nonce))) % 256

GcmKeystream(k0, i) == (k0 + 17 * i) % 256

GcmCrypt(key, nonce, data) ==
    LET k0 == GcmCounter0(key, nonce)
    IN [i \in 1..Len(data) |-> XorByte(data[i], GcmKeystream(k0, i))]

GcmTag(key, nonce, ct) ==
    << SumTo(key.block, HMAC_BLOCK_SIZE) % 256,
       WSumTo(key.block, HMAC_BLOCK_SIZE) % 256,
       SumTo(key.salt, Len(key.salt)) % 256,
       WSumTo(key.salt, Len(key.salt)) % 256,
       SumTo(nonce, Len(nonce)) % 256,
       WSumTo(nonce, Len(nonce)) % 256,
       SumTo(ct, Len(ct)) % 256,
       WSumTo(ct, Len(ct)) % 256,
       Len(ct) % 256,
       Len(key.salt), Len(nonce), 0, 0, 0, 0, 0 >>

AESGCM_encrypt(key, nonce, data) ==
    LET ct == GcmCrypt(key, nonce, data)
    IN ct \o GcmTag(key, nonce, ct)

AESGCM_decrypt(key, nonce, data) ==
    IF Len(data) < TAG_SIZE THEN Raise("InvalidTag", "")
    ELSE LET ct  == Take(data, Len(data) - TAG_SIZE)
             tag == SliceFrom(data, Len(data) - TAG_SIZE)
         IN IF GcmTag(key, nonce, ct) = tag
            THEN Return(GcmCrypt(key, nonce, ct))
            ELSE Raise("InvalidTag", "")

(***************************************************************************)
(* AESGCMEncryptor.encrypt, is_encrypted, decrypt.                         *)
(***************************************************************************)
\* encrypt writing the nonce before the salt
encrypt_NonceFirst(data, password, salt, nonce) ==
    MAGIC_HEADER \o << VERSION >> \o nonce \o salt
        \o AESGCM_encrypt(derive_key(password, salt), nonce, data)

\* encrypt leaving the version byte out
encrypt_NoVersionByte(data, password, salt, nonce) ==
    MAGIC_HEADER \o salt \o nonce
        \o AESGCM_encrypt(derive_key(password, salt), nonce, data)

\* encrypt with a salt and a nonce drawn once and used for every call
encrypt_ReusedRandom(data, password, salt, nonce) ==
    MAGIC_HEADER \o << VERSION >> \o TokenBytes(SALT_SIZE, 0) \o TokenBytes(NONCE_SIZE, 7)
        \o AESGCM_encrypt(derive_key(password, TokenBytes(SALT_SIZE, 0)),
                          TokenBytes(NONCE_SIZE, 7), data)

\* encrypt with the salt and nonce the random source returned
encrypt(data, password, salt, nonce) ==
    LET key        == derive_key(password, salt)
        ciphertext == AESGCM_encrypt(key, nonce, data)
    IN MAGIC_HEADER \o << VERSION >> \o salt \o nonce \o ciphertext

startswith(data, prefix) ==
    Len(data) >= Len(prefix) /\ SubSeq(data, 1, Len(prefix)) = prefix

\* is_encrypted reading the version one byte early
is_encrypted_VersionOffByOne(data) ==
    IF Len(data) = 0 \/ Len(data) < Len(MAGIC_HEADER) + 1 THEN FALSE
    ELSE IF ~startswith(data, MAGIC_HEADER) THEN FALSE
    ELSE data[Len(MAGIC_HEADER)] = VERSION

\* is_encrypted without the version test
is_encrypted_MagicOnly(data) ==
    IF Len(data) = 0 \/ Len(data) < Len(MAGIC_HEADER) + 1 THEN FALSE
    ELSE startswith(data, MAGIC_HEADER)

is_encrypted(data) ==
    IF Len(data) = 0 \/ Len(data) < Len(MAGIC_HEADER) + 1 THEN FALSE
    ELSE IF ~startswith(data, MAGIC_HEADER) THEN FALSE
    ELSE data[Len(MAGIC_HEADER) + 1] = VERSION

\* the body of decrypt's try block
decrypt_body(encrypted_data, password) ==
    LET min_size == Len(MAGIC_HEADER) + 1 + SALT_SIZE + NONCE_SIZE + 16
    IN
    IF Len(encrypted_data) < min_size
    THEN Raise("DecryptionError", "too short")
    ELSE IF ~is_encrypted(encrypted_data)
    THEN Raise("DecryptionError", "missing magic header")
    ELSE
    LET off0    == Len(MAGIC_HEADER)
        version == encrypted_data[off0 + 1]
        off1    == off0 + 1
        salt    == Slice(encrypted_data, off1, off1 + SALT_SIZE)
        off2    == off1 + SALT_SIZE
        nonce   == Slice(encrypted_data, off2, off2 + NONCE_SIZE)
        off3    == off2 + NONCE_SIZE
        ciphertext == SliceFrom(encrypted_data, off3)
    IN
    IF version # VERSION
    THEN Raise("DecryptionError", "unsupported version")
    ELSE IF Len(salt) # SALT_SIZE
    THEN Raise("DecryptionError", "incomplete salt")
    ELSE IF Len(nonce) # NONCE_SIZE
    THEN Raise("DecryptionError", "incomplete nonce")
    ELSE IF Len(ciphertext) < 16
    THEN Raise("DecryptionError", "incomplete ciphertext")
    ELSE AESGCM_decrypt(derive_key(password, salt), nonce, ciphertext)

\* the except clauses of decrypt without `except InvalidTag`
decrypt_handlers_NoInvalidTag(o) ==
    IF o.kind # "raise" THEN o
    ELSE IF IsInstance(o.exc, "InvalidPasswordError") THEN o
    ELSE IF IsInstance(o.exc, "DecryptionError") THEN o
    ELSE Raise("DecryptionError", "Decryption failed")

\* the except clauses of decrypt, in source order
decrypt_handlers(o) ==
    IF o.kind # "raise" THEN o
    ELSE IF IsInstance(o.exc, "InvalidTag")
    THEN Raise("InvalidPasswordError", "wrong password or corrupted data")
    ELSE IF IsInstance(o.exc, "InvalidPasswordError") THEN o
    ELSE IF IsInstance(o.exc, "DecryptionError") THEN o
    ELSE Raise("DecryptionError", "Decryption failed")

decrypt(encrypted_data, password) ==
    decrypt_handlers(decrypt_body(encrypted_data, password))

(***************************************************************************)
(* bytes.decode('utf-8'): strict decoding of 1-, 2- and 3-byte sequences   *)
(* (the texts of the model hold no character above U+FFFF).  The input is  *)
(* well formed when every lead byte is followed by its continuation bytes, *)
(* every continuation byte belongs to a lead byte, and no sequence is      *)
(* overlong or a surrogate; otherwise UnicodeDecodeError is raised.        *)
(***************************************************************************)
IsCont(b) == b >= 128 /\ b < 192

IsLead2(b) == b >= 194 /\ b < 224

IsLead3(b) == b >= 224 /\ b < 240

\* the code point of the sequence that starts at b[i]
Utf8CharAt(b, i) ==
    IF b[i] < 128 THEN b[i]
    ELSE IF IsLead2(b[i]) THEN (b[i] - 192) * 64 + (b[i + 1] - 128)
    ELSE (b[i] - 224) * 4096 + (b[i + 1] - 128) * 64 + (b[i + 2] - 128)

Utf8WellFormedAt(b, i) ==
    IF b[i] < 128 THEN TRUE
    ELSE IF IsCont(b[i])
    THEN /\ i > 1
         /\ \/ IsLead2(b[i - 1]) \/ IsLead3(b[i - 1])
            \/ (i > 2 /\ IsCont(b[i - 1]) /\ IsLead3(b[i - 2]))
    ELSE IF IsLead2(b[i]) THEN i + 1 <= Len(b) /\ IsCont(b[i + 1])
    ELSE IF IsLead3(b[i])
    THEN /\ i + 2 <= Len(b) /\ IsCont(b[i + 1]) /\ IsCont(b[i + 2])
         /\ Utf8CharAt(b, i) >= 2048
         /\ ~(Utf8CharAt(b, i) >= 55296 /\ Utf8CharAt(b, i) <= 57343)
    ELSE FALSE

Utf8Decode(b) ==
    IF \E i \in 1..Len(b) : ~Utf8WellFormedAt(b, i)
    THEN Raise("UnicodeDecodeError", "invalid utf-8")
    ELSE LET starts == SelectSeq([i \in 1..Len(b) |-> i], LAMBDA i : ~IsCont(b[i]))
         IN Return([k \in 1..Len(starts) |-> Utf8CharAt(b, starts[k])])

(***************************************************************************)
(* Base64Encoder: base64.b64encode / base64.b64decode (RFC 4648 alphabet,  *)
(* '=' padding; decoding is the non-validating default: characters outside *)
(* the alphabet are skipped, input after complete padding is ignored, and  *)
(* an incomplete final quantum raises binascii.Error).                     *)
(***************************************************************************)
B64Char(v) ==
    IF v < 26 THEN 65 + v
    ELSE IF v < 52 THEN 97 + (v - 26)
    ELSE IF v < 62 THEN 48 + (v - 52)
    ELSE IF v = 62 THEN 43 ELSE 47

\* value of an alphabet character, -1 for any other character
B64Val(c) ==
    IF c >= 65 /\ c <= 90 THEN c - 65
    ELSE IF c >= 97 /\ c <= 122 THEN c - 97 + 26
    ELSE IF c >= 48 /\ c <= 57 THEN c - 48 + 52
    ELSE IF c = 43 THEN 62
    ELSE IF c = 47 THEN 63
    ELSE -1

RECURSIVE B64EncodeFrom(_, _)
B64EncodeFrom(b, i) ==
    LET n == Len(b) - i + 1
    IN IF n <= 0 THEN <<>>
       ELSE IF n = 1
       THEN << B64Char(b[i] \div 4), B64Char((b[i] % 4) * 16), 61, 61 >>
       ELSE IF n = 2
       THEN << B64Char(b[i] \div 4),
               B64Char((b[i] % 4) * 16 + (b[i + 1] \div 16)),
               B64Char((b[i + 1] % 16) * 4), 61 >>
       ELSE << B64Char(b[i] \div 4),
               B64Char((b[i] % 4) * 16 + (b[i + 1] \div 16)),
               B64Char((b[i + 1] % 16) * 4 + (b[i + 2] \div 64)),
               B64Char(b[i + 2] % 64) >> \o B64EncodeFrom(b, i + 3)

b64encode(b) == B64EncodeFrom(b, 1)

\* q: the sextets of the open quantum, pads: '=' seen in it, out: bytes so far
RECURSIVE B64DecodeFrom(_, _, _, _, _)
B64DecodeFrom(s, i, q, pads, out) ==
    IF i > Len(s)
    THEN IF Len(q) = 0 THEN Return(out)
         ELSE Raise("binascii.Error", "Incorrect padding")
    ELSE IF s[i] = 61
    THEN IF Len(q) = 2 /\ pads = 1
         THEN Return(Append(out, q[1] * 4 + (q[2] \div 16)))
         ELSE IF Len(q) = 3
         THEN Return(out \o << q[1] * 4 + (q[2] \div 16),
                               (q[2] % 16) * 16 + (q[3] \div 4) >>)
         ELSE IF Len(q) = 2
         THEN B64DecodeFrom(s, i + 1, q, pads + 1, out)
         ELSE B64DecodeFrom(s, i + 1, q, pads, out)
    ELSE IF B64Val(s[i]) < 0
    THEN B64DecodeFrom(s, i + 1, q, pads, out)
    ELSE IF Len(q) = 3
    THEN B64DecodeFrom(s, i + 1, <<>>, 0,
            out \o << q[1] * 4 + (q[2] \div 16),
                      (q[2] % 16) * 16 + (q[3] \div 4),
                      (q[3] % 4) * 64 + B64Val(s[i]) >>)
    ELSE B64DecodeFrom(s, i + 1, Append(q, B64Val(s[i])), 0, out)

b64decode(s) == B64DecodeFrom(s, 1, <<>>, 0, <<>>)

\* Base64Encoder.encode: never fails on bytes
encoder_encode(content) == b64encode(content)

\* Base64Encoder.decode: any failure is re-raised as EncodingError
encoder_decode(encoded) ==
    LET o == b64decode(encoded)
    IN IF o.kind = "raise" THEN Raise("EncodingError", "Failed to decode content") ELSE o

(***************************************************************************)
(* JSON values (what json.loads returns and json.dumps takes): one record  *)
(* shape for every type; a dict keeps its (key, value) pairs in insertion  *)
(* order.                                                                  *)
(***************************************************************************)
JNull == [t |-> "null", n |-> 0, s |-> <<>>, items |-> <<>>]

JBool(b) == [t |-> "bool", n |-> IF b THEN 1 ELSE 0, s |-> <<>>, items |-> <<>>]

JInt(n) == [t |-> "int", n |-> n, s |-> <<>>, items |-> <<>>]

JStr(s) == [t |-> "str", n |-> 0, s |-> s, items |-> <<>>]

JList(items) == [t |-> "list", n |-> 0, s |-> <<>>, items |-> items]

JPair(k, v) == [k |-> k, v |-> v]

JDict(pairs) == [t |-> "dict", n |-> 0, s |-> <<>>, items |-> pairs]

\* dict: key in d
HasKey(d, k) == \E i \in 1..Len(d.items) : d.items[i].k = k

\* dict: d[k] for a key that is present (the last pair of that key)
GetKey(d, k) ==
    LET i == CHOOSE j \in 1..Len(d.items) :
                 /\ d.items[j].k = k
                 /\ \A m \in (j + 1)..Len(d.items) : d.items[m].k # k
    IN d.items[i].v

\* dict.__setitem__ as json.loads applies it: a repeated key keeps its
\* first position and takes the last value
RECURSIVE SetKey(_, _, _, _)
SetKey(pairs, k, v, i) ==
    IF i > Len(pairs) THEN Append(pairs, JPair(k, v))
    ELSE IF pairs[i].k = k THEN [pairs EXCEPT ![i] = JPair(k, v)]
    ELSE SetKey(pairs, k, v, i + 1)

(***************************************************************************)
(* json.dumps(data, indent=2, ensure_ascii=False).                         *)
(***************************************************************************)
HexDigit(v) == IF v < 10 THEN 48 + v ELSE 97 + (v - 10)

JsonEscapeChar(c) ==
    IF c = 34 THEN << 92, 34 >>
    ELSE IF c = 92 THEN << 92, 92 >>
    ELSE IF c = 10 THEN << 92, 110 >>
    ELSE IF c = 13 THEN << 92, 114 >>
    ELSE IF c = 9 THEN << 92, 116 >>
    ELSE IF c = 8 THEN << 92, 98 >>
    ELSE IF c = 12 THEN << 92, 102 >>
    ELSE IF c < 32 THEN << 92, 117, 48, 48, HexDigit(c \div 16), HexDigit(c % 16) >>
    ELSE << c >>

RECURSIVE JsonEscapeFrom(_, _)
JsonEscapeFrom(s, i) ==
    IF i > Len(s) THEN <<>> ELSE JsonEscapeChar(s[i]) \o JsonEscapeFrom(s, i + 1)

JsonQuote(s) == << 34 >> \o JsonEscapeFrom(s, 1) \o << 34 >>

RECURSIVE Digits(_)
Digits(n) == IF n < 10 THEN << 48 + n >> ELSE Append(Digits(n \div 10), 48 + (n % 10))

JsonInt(n) == IF n < 0 THEN << 45 >> \o Digits(0 - n) ELSE Digits(n)

JsonIndent(level) == [i \in 1..(2 * level) |-> 32]

RECURSIVE JsonDumpsAt(_, _)
RECURSIVE JsonDumpItems(_, _, _, _)
JsonDumpItems(v, level, i, isDict) ==
    LET item == IF isDict
                THEN JsonQuote(v.items[i].k) \o << 58, 32 >>
                        \o JsonDumpsAt(v.items[i].v, level)
                ELSE JsonDumpsAt(v.items[i], level)
    IN IF i = Len(v.items)
       THEN JsonIndent(level) \o item \o << 10 >>
       ELSE JsonIndent(level) \o item \o << 44, 10 >>
               \o JsonDumpItems(v, level, i + 1, isDict)

JsonDumpsAt(v, level) ==
    CASE v.t = "null" -> << 110, 117, 108, 108 >>
      [] v.t = "bool" -> IF v.n = 1 THEN << 116, 114, 117, 101 >> ELSE << 102, 97, 108, 115, 101 >>
      [] v.t = "int"  -> JsonInt(v.n)
      [] v.t = "str"  -> JsonQuote(v.s)
      [] v.t = "list" ->
            IF Len(v.items) = 0 THEN << 91, 93 >>
            ELSE << 91, 10 >> \o JsonDumpItems(v, level + 1, 1, FALSE)
                    \o JsonIndent(level) \o << 93 >>
      [] v.t = "dict" ->
            IF Len(v.items) = 0 THEN << 123, 125 >>
            ELSE << 123, 10 >> \o JsonDumpItems(v, level + 1, 1, TRUE)
                    \o JsonIndent(level) \o << 125 >>

json_dumps(v) == JsonDumpsAt(v, 0)

(***************************************************************************)
(* json.loads(text): a recursive-descent parser of objects, arrays,        *)
(* strings (with escapes), integers and the three literals.  A parse       *)
(* result is [ok, v, i]: the value and the index after it.                 *)
(***************************************************************************)
PFail == [ok |-> FALSE, v |-> JNull, i |-> 0]

POk(v, i) == [ok |-> TRUE, v |-> v, i |-> i]

IsWs(c) == c = 32 \/ c = 9 \/ c = 10 \/ c = 13

RECURSIVE SkipWs(_, _)
SkipWs(t, i) == IF i <= Len(t) /\ IsWs(t[i]) THEN SkipWs(t, i + 1) ELSE i

HexVal(c) ==
    IF c >= 48 /\ c <= 57 THEN c - 48
    ELSE IF c >= 97 /\ c <= 102 THEN c - 97 + 10
    ELSE IF c >= 65 /\ c <= 70 THEN c - 65 + 10
    ELSE -1

\* the character a one-letter escape stands for, -1 if it is none
UnescapeChar(c) ==
    CASE c = 34 -> 34 [] c = 92 -> 92 [] c = 47 -> 47 [] c = 98 -> 8
      [] c = 102 -> 12 [] c = 110 -> 10 [] c = 114 -> 13 [] c = 116 -> 9
      [] OTHER -> -1

\* t[i] is the character after the opening quote
RECURSIVE ParseString(_, _, _)
ParseString(t, i, acc) ==
    IF i > Len(t) THEN PFail
    ELSE IF t[i] = 34 THEN POk(JStr(acc), i + 1)
    ELSE IF t[i] < 32 THEN PFail
    ELSE IF t[i] # 92 THEN ParseString(t, i + 1, Append(acc, t[i]))
    ELSE IF i + 1 > Len(t) THEN PFail
    ELSE IF t[i + 1] = 117
    THEN IF i + 5 <= Len(t) /\ \A j \in 2..5 : HexVal(t[i + j]) >= 0
         THEN ParseString(t, i + 6,
                 Append(acc, HexVal(t[i + 2]) * 4096 + HexVal(t[i + 3]) * 256
                             + HexVal(t[i + 4]) * 16 + HexVal(t[i + 5])))
         ELSE PFail
    ELSE IF UnescapeChar(t[i + 1]) >= 0
    THEN ParseString(t, i + 2, Append(acc, UnescapeChar(t[i + 1])))
    ELSE PFail

IsDigit(c) == c >= 48 /\ c <= 57

RECURSIVE ParseDigits(_, _, _)
ParseDigits(t, i, acc) ==
    IF i <= Len(t) /\ IsDigit(t[i])
    THEN ParseDigits(t, i + 1, acc * 10 + (t[i] - 48))
    ELSE POk(JInt(acc), i)

\* an integer: -?(0|[1-9][0-9]*)
ParseUnsigned(t, j) ==
    IF j > Len(t) \/ ~IsDigit(t[j]) THEN PFail
    ELSE IF t[j] = 48 THEN POk(JInt(0), j + 1)
    ELSE ParseDigits(t, j, 0)

Negated(r) == IF r.ok THEN POk(JInt(0 - r.v.n), r.i) ELSE r

ParseNumber(t, i) ==
    IF t[i] = 45 THEN Negated(ParseUnsigned(t, i + 1)) ELSE ParseUnsigned(t, i)

HasWord(t, i, w) == i + Len(w) - 1 <= Len(t) /\ SubSeq(t, i, i + Len(w) - 1) = w

RECURSIVE ParseValue(_, _)
RECURSIVE ParseArray(_, _, _)
RECURSIVE ParseObject(_, _, _)

\* after an element: t[j] is ']' (the array ends) or ',' (another follows)
ParseArraySep(t, j, acc) ==
    IF j > Len(t) THEN PFail
    ELSE IF t[j] = 93 THEN POk(JList(acc), j + 1)
    ELSE IF t[j] = 44 THEN ParseArray(t, SkipWs(t, j + 1), acc)
    ELSE PFail

\* r is the parse of the element
ParseArrayElem(t, r, acc) ==
    IF ~r.ok THEN PFail ELSE ParseArraySep(t, SkipWs(t, r.i), Append(acc, r.v))

\* t[i] starts the next element; acc holds the elements parsed so far
ParseArray(t, i, acc) == ParseArrayElem(t, ParseValue(t, i), acc)

\* after a member: t[j] is '}' (the object ends) or ',' (another follows)
ParseObjectSep(t, j, acc) ==
    IF j > Len(t) THEN PFail
    ELSE IF t[j] = 125 THEN POk(JDict(acc), j + 1)
    ELSE IF t[j] = 44 THEN ParseObject(t, SkipWs(t, j + 1), acc)
    ELSE PFail

\* r is the parse of the member's value; a repeated key keeps its last value
ParseObjectMember(t, key, r, acc) ==
    IF ~r.ok THEN PFail
    ELSE ParseObjectSep(t, SkipWs(t, r.i), SetKey(acc, key, r.v, 1))

\* t[c] must be the ':' after the key
ParseObjectColon(t, key, c, acc) ==
    IF c > Len(t) \/ t[c] # 58 THEN PFail
    ELSE ParseObjectMember(t, key, ParseValue(t, SkipWs(t, c + 1)), acc)

\* k is the parse of the key
ParseObjectKey(t, k, acc) ==
    IF ~k.ok THEN PFail ELSE ParseObjectColon(t, k.v.s, SkipWs(t, k.i), acc)

\* t[i] must be the opening quote of the next key
ParseObject(t, i, acc) ==
    IF i > Len(t) \/ t[i] # 34 THEN PFail
    ELSE ParseObjectKey(t, ParseString(t, i + 1, <<>>), acc)

\* t[j] is the first character after '{' and white space
ParseObjectOpen(t, j) ==
    IF j <= Len(t) /\ t[j] = 125 THEN POk(JDict(<<>>), j + 1) ELSE ParseObject(t, j, <<>>)

\* t[j] is the first character after '[' and white space
ParseArrayOpen(t, j) ==
    IF j <= Len(t) /\ t[j] = 93 THEN POk(JList(<<>>), j + 1) ELSE ParseArray(t, j, <<>>)

ParseValue(t, i) ==
    IF i > Len(t) THEN PFail
    ELSE IF t[i] = 34 THEN ParseString(t, i + 1, <<>>)
    ELSE IF t[i] = 123 THEN ParseObjectOpen(t, SkipWs(t, i + 1))
    ELSE IF t[i] = 91 THEN ParseArrayOpen(t, SkipWs(t, i + 1))
    ELSE IF HasWord(t, i, << 110, 117, 108, 108 >>) THEN POk(JNull, i + 4)
    ELSE IF HasWord(t, i, << 116, 114, 117, 101 >>) THEN POk(JBool(TRUE), i + 4)
    ELSE IF HasWord(t, i, << 102, 97, 108, 115, 101 >>) THEN POk(JBool(FALSE), i + 5)
    ELSE IF t[i] = 45 \/ IsDigit(t[i]) THEN ParseNumber(t, i)
    ELSE PFail

\* r is the parse of the one value of the text
json_loads_end(text, r) ==
    IF ~r.ok THEN Raise("JSONDecodeError", "Expecting value")
    ELSE IF SkipWs(text, r.i) <= Len(text) THEN Raise("JSONDecodeError", "Extra data")
    ELSE Return(r.v)

\* json.loads: one value between optional whitespace, nothing after it
json_loads(text) == json_loads_end(text, ParseValue(text, SkipWs(text, 1)))

(***************************************************************************)
(* Python object protocol on JSON values: truth value, `in`, iteration.    *)
(***************************************************************************)
PyTruthy(v) ==
    CASE v.t = "null" -> FALSE
      [] v.t = "bool" -> v.n = 1
      [] v.t = "int"  -> v.n # 0
      [] v.t = "str"  -> Len(v.s) > 0
      [] OTHER        -> Len(v.items) > 0

IsSubstring(w, s) ==
    \E i \in 1..(Len(s) - Len(w) + 1) : SubSeq(s, i, i + Len(w) - 1) = w

\* key in v, for a str key: dict membership, list element, substring of a
\* str; TypeError for a value that is no container
PyContains(v, key) ==
    CASE v.t = "dict" -> Return(HasKey(v, key))
      [] v.t = "list" -> Return(\E i \in 1..Len(v.items) : v.items[i] = JStr(key))
      [] v.t = "str"  -> Return(Len(key) = 0 \/ IsSubstring(key, v.s))
      [] OTHER        -> Raise("TypeError", "argument is not iterable")

\* v[key] for a str key: only a dict can be subscripted by a str
PyGetItem(v, key) ==
    IF v.t = "dict"
    THEN IF HasKey(v, key) THEN Return(GetKey(v, key)) ELSE Raise("KeyError", "")
    ELSE Raise("TypeError", "indices must be integers")

\* the sequence `for x in v` runs over
PyIter(v) ==
    CASE v.t = "list" -> Return(v.items)
      [] v.t = "dict" -> Return([i \in 1..Len(v.items) |-> JStr(v.items[i].k)])
      [] v.t = "str"  -> Return([i \in 1..Len(v.s) |-> JStr(<< v.s[i] >>)])
      [] OTHER        -> Raise("TypeError", "object is not iterable")

(***************************************************************************)
(* shared/utils.py normalize_path: path.replace(os.sep, '/').              *)
(***************************************************************************)
normalize_path(path, sep) == [i \in 1..Len(path) |-> IF path[i] = sep THEN 47 ELSE path[i]]

(***************************************************************************)
(* FileEntry.                                                              *)
(***************************************************************************)
K_root_path == << 114, 111, 111, 116, 95, 112, 97, 116, 104 >>

K_created_at == << 99, 114, 101, 97, 116, 101, 100, 95, 97, 116 >>

K_metadata == << 109, 101, 116, 97, 100, 97, 116, 97 >>

K_directories == << 100, 105, 114, 101, 99, 116, 111, 114, 105, 101, 115 >>

K_files == << 102, 105, 108, 101, 115 >>

K_path == << 112, 97, 116, 104 >>

K_size == << 115, 105, 122, 101 >>

K_checksum == << 99, 104, 101, 99, 107, 115, 117, 109 >>

K_content_base64 == << 99, 111, 110, 116, 101, 110, 116, 95, 98, 97, 115, 101, 54, 52 >>

RECURSIVE HexFrom(_, _)
HexFrom(b, i) ==
    IF i > Len(b) THEN <<>>
    ELSE << HexDigit(b[i] \div 16), HexDigit(b[i] % 16) >> \o HexFrom(b, i + 1)

\* _calculate_checksum: hashlib.sha256(content).hexdigest().  SHA-256 is
\* taken as collision free: the digest text is an injective hex rendering
\* of the content.
calculate_checksum(content) == << 115 >> \o HexFrom(content, 1)

\* the dataclass constructor followed by __post_init__
FileEntry(relative_path, content, sep) ==
    [relative_path   |-> normalize_path(relative_path, sep),
     content         |-> content,
     size            |-> Len(content),
     checksum        |-> calculate_checksum(content),
     has_encoded     |-> FALSE,
     encoded_content |-> <<>>]

\* validate_checksum comparing the length of the content with the size
validate_checksum_SizeOnly(f) == Len(f.content) = f.size

validate_checksum(f) == calculate_checksum(f.content) = f.checksum

set_encoded_content(f, encoded) ==
    [f EXCEPT !.has_encoded = TRUE, !.encoded_content = encoded]

\* FileEntry.to_dict(include_content=True)
FileEntry_to_dict(f) ==
    IF ~f.has_encoded THEN Raise("ValidationError", "no encoded content")
    ELSE Return(JDict(<< JPair(K_path, JStr(f.relative_path)),
                         JPair(K_size, JInt(f.size)),
                         JPair(K_checksum, JStr(f.checksum)),
                         JPair(K_content_base64, JStr(f.encoded_content)) >>))

\* from_dict without the checksum cross-check
from_dict_check_Unchecked(data, entry) == Return(entry)

\* from_dict after the constructor: the checksum cross-check
from_dict_check(data, entry) ==
    IF HasKey(data, K_checksum) /\ JStr(entry.checksum) # GetKey(data, K_checksum)
    THEN Raise("ValidationError", "Checksum mismatch")
    ELSE Return(entry)

\* from_dict with p the outcome of data['path']
from_dict_path(data, p, content, sep) ==
    IF p.kind = "raise" THEN p
    ELSE IF p.value.t # "str" THEN Raise("AttributeError", "replace")
    ELSE from_dict_check(data, FileEntry(p.value.s, content, sep))

\* FileEntry.from_dict(data, content), data a dict
FileEntry_from_dict(data, content, sep) ==
    from_dict_path(data, PyGetItem(data, K_path), content, sep)

(***************************************************************************)
(* DirectorySnapshot.  A DirectoryEntry is kept as its relative_path;      *)
(* root_path and metadata are Python objects (JSON values), created_at is  *)
(* a clock tick.                                                           *)
(***************************************************************************)
DirectorySnapshot(root_path, created_at, metadata) ==
    [root_path   |-> root_path,
     directories |-> <<>>,
     files       |-> <<>>,
     created_at  |-> created_at,
     metadata    |-> metadata]

\* add_directory with a str argument
add_directory(snapshot, relative_path, sep) ==
    IF Len(relative_path) > 0 /\ relative_path # << 46 >>
    THEN [snapshot EXCEPT !.directories = Append(@, normalize_path(relative_path, sep))]
    ELSE snapshot

add_file(snapshot, file_entry) ==
    [snapshot EXCEPT !.files = Append(@, file_entry)]

HasDuplicates(seq) == \E i, j \in 1..Len(seq) : i < j /\ seq[i] = seq[j]

\* validate without the directory path test
validate_NoDirectoryCheck(snapshot) ==
    IF ~PyTruthy(snapshot.root_path)
    THEN Raise("ValidationError", "Snapshot must have a root_path")
    ELSE IF \E i \in 1..Len(snapshot.files) : ~validate_checksum(snapshot.files[i])
    THEN Raise("ValidationError", "Invalid checksum for file")
    ELSE IF HasDuplicates([i \in 1..Len(snapshot.files) |-> snapshot.files[i].relative_path])
    THEN Raise("ValidationError", "Snapshot contains duplicate file paths")
    ELSE Return(TRUE)

validate(snapshot) ==
    IF ~PyTruthy(snapshot.root_path)
    THEN Raise("ValidationError", "Snapshot must have a root_path")
    ELSE IF \E i \in 1..Len(snapshot.files) : ~validate_checksum(snapshot.files[i])
    THEN Raise("ValidationError", "Invalid checksum for file")
    ELSE IF HasDuplicates([i \in 1..Len(snapshot.files) |-> snapshot.files[i].relative_path])
    THEN Raise("ValidationError", "Snapshot contains duplicate file paths")
    ELSE IF HasDuplicates(snapshot.directories)
    THEN Raise("ValidationError", "Snapshot contains duplicate directory paths")
    ELSE Return(TRUE)

\* datetime.isoformat / datetime.fromisoformat on clock ticks: "T<digits>"
isoformat(tick) == << 84 >> \o Digits(tick)

fromisoformat(v) ==
    IF v.t # "str" THEN Raise("TypeError", "fromisoformat: argument must be str")
    ELSE IF Len(v.s) >= 2 /\ v.s[1] = 84 /\ \A i \in 2..Len(v.s) : IsDigit(v.s[i])
            /\ (Len(v.s) = 2 \/ v.s[2] # 48)
    THEN Return(ParseDigits(v.s, 2, 0).v.n)
    ELSE Raise("ValueError", "Invalid isoformat string")

\* to_dict leaving the directories out
Snapshot_to_dict_NoDirectories(snapshot) ==
    IF \E i \in 1..Len(snapshot.files) : FileEntry_to_dict(snapshot.files[i]).kind = "raise"
    THEN Raise("ValidationError", "no encoded content")
    ELSE Return(JDict(<<
            JPair(K_root_path, snapshot.root_path),
            JPair(K_created_at, JStr(isoformat(snapshot.created_at))),
            JPair(K_metadata, snapshot.metadata),
            JPair(K_files,
                  JList([i \in 1..Len(snapshot.files) |->
                            FileEntry_to_dict(snapshot.files[i]).value])) >>))

\* DirectorySnapshot.to_dict
Snapshot_to_dict(snapshot) ==
    IF \E i \in 1..Len(snapshot.files) : FileEntry_to_dict(snapshot.files[i]).kind = "raise"
    THEN Raise("ValidationError", "no encoded content")
    ELSE Return(JDict(<<
            JPair(K_root_path, snapshot.root_path),
            JPair(K_created_at, JStr(isoformat(snapshot.created_at))),
            JPair(K_metadata, snapshot.metadata),
            JPair(K_directories,
                  JList([i \in 1..Len(snapshot.directories) |-> JStr(snapshot.directories[i])])),
            JPair(K_files,
                  JList([i \in 1..Len(snapshot.files) |->
                            FileEntry_to_dict(snapshot.files[i]).value])) >>))

\* the loop of from_dict over data.get('directories', [])
RECURSIVE AddDirectories(_, _, _, _)
AddDirectories(snapshot, dirs, i, sep) ==
    IF i > Len(dirs) THEN Return(snapshot)
    ELSE IF ~PyTruthy(dirs[i]) THEN AddDirectories(snapshot, dirs, i + 1, sep)
    ELSE IF dirs[i].t # "str" THEN Raise("AttributeError", "replace")
    ELSE AddDirectories(add_directory(snapshot, dirs[i].s, sep), dirs, i + 1, sep)

\* from_dict, last step: the files are attached to the rebuilt snapshot
from_dict_files(withDirs, files) ==
    IF withDirs.kind = "raise" THEN withDirs
    ELSE Return([withDirs.value EXCEPT !.files = files])

\* from_dict with created, the outcome of reading created_at, and dirs, the
\* outcome of iterating data.get('directories', [])
from_dict_build(data, created, dirs, files, sep) ==
    IF created.kind = "raise" THEN created
    ELSE IF dirs.kind = "raise" THEN dirs
    ELSE from_dict_files(
            AddDirectories(
                DirectorySnapshot(
                    IF HasKey(data, K_root_path) THEN GetKey(data, K_root_path) ELSE JStr(<<>>),
                    created.value,
                    IF HasKey(data, K_metadata) THEN GetKey(data, K_metadata) ELSE JDict(<<>>)),
                dirs.value, 1, sep),
            files)

\* DirectorySnapshot.from_dict(data, files), data a dict; now: datetime.now()
Snapshot_from_dict(data, files, sep, now) ==
    from_dict_build(
        data,
        IF HasKey(data, K_created_at) THEN fromisoformat(GetKey(data, K_created_at))
        ELSE Return(now),
        IF HasKey(data, K_directories) THEN PyIter(GetKey(data, K_directories))
        ELSE Return(<<>>),
        files, sep)

(***************************************************************************)
(* JsonSnapshotRepository.  The container path is one fixed path below a   *)
(* parent directory; the file system is [parent, exists, data].  An        *)
(* Optional[str] password is [some, s].                                    *)
(***************************************************************************)
NonePw == [some |-> FALSE, s |-> <<>>]

SomePw(s) == [some |-> TRUE, s |-> s]

\* truth value of an Optional[str]
PwTruthy(pw) == pw.some /\ Len(pw.s) > 0

\* DIContainer.get_snapshot_repository builds the repository with the
\* encryption service
encryption_service_configured == TRUE

EmptyFs == [parent |-> FALSE, exists |-> FALSE, data |-> <<>>]

\* the loop of save over snapshot.files: encode and cache every content
encode_all(snapshot) ==
    [snapshot EXCEPT !.files =
        [i \in 1..Len(snapshot.files) |->
            set_encoded_content(snapshot.files[i], encoder_encode(snapshot.files[i].content))]]

\* the except clauses of save, in source order
save_handlers(o) ==
    IF o.kind # "raise" THEN o
    ELSE IF IsInstance(o.exc, "OSError")
    THEN Raise("RepositoryError", "Failed to save snapshot")
    ELSE Raise("RepositoryError", "Unexpected error saving snapshot")

\* save, `if password and self._encryption_service` tested as
\* `password is not None`
save_encrypt_IsNotNone(json_bytes, password, salt, nonce) ==
    IF password.some /\ encryption_service_configured
    THEN encrypt(json_bytes, password.s, salt, nonce)
    ELSE json_bytes

\* save: the bytes are encrypted if a password was provided
save_encrypt(json_bytes, password, salt, nonce) ==
    IF PwTruthy(password) /\ encryption_service_configured
    THEN encrypt(json_bytes, password.s, salt, nonce)
    ELSE json_bytes

\* save: os.makedirs(parent_dir, exist_ok=True), then open(path, 'wb') and
\* write; disk is the answer of the disk to open ("ok", or "denied": open
\* raises PermissionError)
save_write(encoded, fsys, out_bytes, disk) ==
    IF disk = "denied"
    THEN [o        |-> save_handlers(Raise("PermissionError", "Permission denied")),
          snapshot |-> encoded,
          fs       |-> [fsys EXCEPT !.parent = TRUE]]
    ELSE [o        |-> Return(NoValue),
          snapshot |-> encoded,
          fs       |-> [parent |-> TRUE, exists |-> TRUE, data |-> out_bytes]]

\* save, with data the outcome of snapshot.to_dict()
save_serialized(encoded, data, fsys, password, salt, nonce, disk) ==
    IF data.kind = "raise"
    THEN [o |-> save_handlers(data), snapshot |-> encoded, fs |-> fsys]
    ELSE save_write(encoded, fsys,
                    save_encrypt(Utf8Encode(json_dumps(data.value)), password, salt, nonce),
                    disk)

\* save, after the loop that encodes the file contents
save_encoded(encoded, fsys, password, salt, nonce, disk) ==
    save_serialized(encoded, Snapshot_to_dict(encoded), fsys, password, salt, nonce, disk)

\* save, with valid the outcome of snapshot.validate()
save_validated(snapshot, valid, fsys, password, salt, nonce, disk) ==
    IF valid.kind = "raise"
    THEN [o |-> save_handlers(valid), snapshot |-> snapshot, fs |-> fsys]
    ELSE save_encoded(encode_all(snapshot), fsys, password, salt, nonce, disk)

\* save running the encode loop before snapshot.validate()
save_EncodeBeforeValidate(snapshot, fsys, password, salt, nonce, disk) ==
    save_validated(encode_all(snapshot), validate(snapshot), fsys, password, salt, nonce, disk)

\* save(snapshot, path, password) with the salt and nonce the random source
\* returns and the answer of the disk; the result is the outcome, the
\* snapshot as the call leaves it and the file system as the call leaves it
save(snapshot, fsys, password, salt, nonce, disk) ==
    save_validated(snapshot, validate(snapshot), fsys, password, salt, nonce, disk)

\* SaveSnapshotUseCase.execute, with valid the outcome of its own
\* snapshot.validate(): the repository is called without a password
execute_save(snapshot, valid, fsys, salt, nonce, disk) ==
    IF valid.kind = "raise"
    THEN [o |-> valid, snapshot |-> snapshot, fs |-> fsys]
    ELSE save(snapshot, fsys, NonePw, salt, nonce, disk)

\* SaveSnapshotUseCase.execute(snapshot, path)
SaveSnapshotUseCase_execute(snapshot, fsys, salt, nonce, disk) ==
    execute_save(snapshot, validate(snapshot), fsys, salt, nonce, disk)

\* load's first stage without the `if not password` test: decrypt is
\* called with whatever was passed (None.encode raises AttributeError,
\* which decrypt reports as DecryptionError)
load_decrypt_NoPasswordTest(data_bytes, password) ==
    IF encryption_service_configured /\ is_encrypted(data_bytes)
    THEN [o |-> IF password.some THEN decrypt(data_bytes, password.s)
                ELSE Raise("DecryptionError", "Decryption failed"),
          called |-> TRUE]
    ELSE [o |-> Return(data_bytes), called |-> FALSE]

\* load, first stage: detect the envelope and decrypt.  Returns the bytes to
\* parse, or raises; called: whether decrypt was called.
load_decrypt(data_bytes, password) ==
    IF encryption_service_configured /\ is_encrypted(data_bytes)
    THEN IF ~PwTruthy(password)
         THEN [o |-> Raise("DecryptionError", "This snapshot is encrypted"), called |-> FALSE]
         ELSE [o |-> decrypt(data_bytes, password.s), called |-> TRUE]
    ELSE [o |-> Return(data_bytes), called |-> FALSE]

RECURSIVE load_files(_, _, _, _)

\* loop body, after FileEntry.from_dict: files.append(file_entry)
load_files_append(items, i, files, entry, sep) ==
    IF entry.kind = "raise" THEN entry
    ELSE load_files(items, i + 1, Append(files, entry.value), sep)

\* the loop body with the entry built by the constructor, not by from_dict
load_files_entry_Constructor(items, i, files, content, sep) ==
    IF content.kind = "raise" THEN content
    ELSE load_files_append(items, i, files,
                           Return(FileEntry(GetKey(items[i], K_path).s, content.value, sep)),
                           sep)

\* loop body, after self._encoder.decode
load_files_entry(items, i, files, content, sep) ==
    IF content.kind = "raise" THEN content
    ELSE load_files_append(items, i, files,
                           FileEntry_from_dict(items[i], content.value, sep), sep)

\* loop body, with b64 the outcome of file_data['content_base64']; decode
\* takes an ASCII str
load_files_decode(items, i, files, b64, sep) ==
    IF b64.kind = "raise" THEN b64
    ELSE IF b64.value.t # "str" \/ \E j \in 1..Len(b64.value.s) : b64.value.s[j] >= 128
    THEN Raise("EncodingError", "Failed to decode content")
    ELSE load_files_entry(items, i, files, encoder_decode(b64.value.s), sep)

\* loop body, with the outcomes of the two `in` tests
load_files_required(items, i, files, hasPath, hasB64, sep) ==
    IF hasPath.kind = "raise" THEN hasPath
    ELSE IF ~hasPath.value
    THEN Raise("InvalidSnapshotError", "File entry missing required fields")
    ELSE IF hasB64.kind = "raise" THEN hasB64
    ELSE IF ~hasB64.value
    THEN Raise("InvalidSnapshotError", "File entry missing required fields")
    ELSE load_files_decode(items, i, files, PyGetItem(items[i], K_content_base64), sep)

\* the loop of load over data['files']
load_files(items, i, files, sep) ==
    IF i > Len(items) THEN Return(files)
    ELSE load_files_required(items, i, files,
                             PyContains(items[i], K_path),
                             PyContains(items[i], K_content_base64), sep)

\* load, after DirectorySnapshot.from_dict: snapshot.validate(), return
load_validate(snapshot, valid) == IF valid.kind = "raise" THEN valid ELSE snapshot

\* load returning the rebuilt snapshot without snapshot.validate()
load_validated_NoValidate(snapshot) == snapshot

load_validated(snapshot) ==
    IF snapshot.kind = "raise" THEN snapshot
    ELSE load_validate(snapshot, validate(snapshot.value))

\* load, after the loop over the files
load_snapshot(data, files, sep, now) ==
    IF files.kind = "raise" THEN files
    ELSE load_validated(Snapshot_from_dict(data, files.value, sep, now))

\* load, with items the outcome of iterating data['files']
load_items(data, items, sep, now) ==
    IF items.kind = "raise" THEN items
    ELSE load_snapshot(data, load_files(items.value, 1, <<>>, sep), sep, now)

\* load, with filesVal the outcome of data['files']
load_iterate(data, filesVal, sep, now) ==
    IF filesVal.kind = "raise" THEN filesVal
    ELSE load_items(data, PyIter(filesVal.value), sep, now)

\* load, with hasFiles the outcome of 'files' in data
load_required(data, hasFiles, sep, now) ==
    IF hasFiles.kind = "raise" THEN hasFiles
    ELSE IF ~hasFiles.value
    THEN Raise("InvalidSnapshotError", "Snapshot is missing 'files' field")
    ELSE load_iterate(data, PyGetItem(data, K_files), sep, now)

\* load, with data the outcome of json.loads
load_data(data, sep, now) ==
    IF data.kind = "raise" THEN data
    ELSE load_required(data.value, PyContains(data.value, K_files), sep, now)

\* load, with json_str the outcome of data_bytes.decode('utf-8')
load_text(json_str, sep, now) ==
    IF json_str.kind = "raise" THEN json_str
    ELSE load_data(json_loads(json_str.value), sep, now)

\* load, second stage: decode, parse, rebuild and validate
load_parse(data_bytes, sep, now) == load_text(Utf8Decode(data_bytes), sep, now)

\* the except clauses of load without `except DecryptionError: raise`
load_handlers_NoDecryptionError(o) ==
    IF o.kind # "raise" THEN o
    ELSE IF IsInstance(o.exc, "JSONDecodeError")
    THEN Raise("InvalidSnapshotError", "Invalid JSON in snapshot file")
    ELSE IF IsInstance(o.exc, "OSError")
    THEN Raise("RepositoryError", "Failed to load snapshot")
    ELSE IF IsInstance(o.exc, "InvalidSnapshotError") THEN o
    ELSE Raise("RepositoryError", "Unexpected error loading snapshot")

\* the except clauses of load, in source order
load_handlers(o) ==
    IF o.kind # "raise" THEN o
    ELSE IF IsInstance(o.exc, "DecryptionError") THEN o
    ELSE IF IsInstance(o.exc, "JSONDecodeError")
    THEN Raise("InvalidSnapshotError", "Invalid JSON in snapshot file")
    ELSE IF IsInstance(o.exc, "OSError")
    THEN Raise("RepositoryError", "Failed to load snapshot")
    ELSE IF IsInstance(o.exc, "InvalidSnapshotError") THEN o
    ELSE Raise("RepositoryError", "Unexpected error loading snapshot")

\* load after its first stage d: the outcome, whether decrypt was called and
\* whether the bytes were handed to the JSON stage
load_staged(d, sep, now) ==
    IF d.o.kind = "raise"
    THEN [o |-> load_handlers(d.o), decrypt_called |-> d.called, json_parsed |-> FALSE]
    ELSE [o |-> load_handlers(load_parse(d.o.value, sep, now)),
          decrypt_called |-> d.called, json_parsed |-> TRUE]

\* load(path, password)
load(fsys, password, sep, now) ==
    IF ~fsys.exists
    THEN [o |-> Raise("SnapshotNotFoundError", "Snapshot file not found"),
          decrypt_called |-> FALSE, json_parsed |-> FALSE]
    ELSE load_staged(load_decrypt(fsys.data, password), sep, now)

\* execute after repository.load returned the snapshot: validate once more
execute_validate(r, valid) ==
    [repo |-> r, o |-> IF valid.kind = "raise" THEN valid ELSE r.o]

\* execute, with r the result of the repository.load call it made
execute_loaded(r) ==
    IF r.o.kind = "raise" THEN [repo |-> r, o |-> r.o]
    ELSE execute_validate(r, validate(r.o.value))

\* LoadSnapshotUseCase.execute: `repo` is the result of the load call it
\* made, `o` its own outcome
LoadSnapshotUseCase_execute(fsys, password, sep, now) ==
    execute_loaded(load(fsys, password, sep, now))

(***************************************************************************)
(* Values of the scenario variables while a scenario is not running.       *)
(***************************************************************************)
NoFlip == [off |-> -1, bit |-> 0]

NoOutcome == [kind |-> "none", exc |-> "", msg |-> "", value |-> NoValue]

NoSnapshot == DirectorySnapshot(JNull, 0, JDict(<<>>))

NoLoad == [o |-> NoOutcome, decrypt_called |-> FALSE, json_parsed |-> FALSE]

RepoIdle ==
    /\ rpc = "init"
    /\ ossep = 47
    /\ snap = NoSnapshot
    /\ fs = EmptyFs
    /\ savePw = NonePw
    /\ saveRes = NoOutcome
    /\ loadPw = NonePw
    /\ loadRes = NoLoad
    /\ execRes = NoOutcome

\* no FileEntry: the value of `ent` before one is made
NoEntry ==
    [relative_path |-> <<>>, content |-> <<>>, size |-> 0, checksum |-> <<>>,
     has_encoded |-> FALSE, encoded_content |-> <<>>]

NoCheck == [called |-> FALSE, result |-> FALSE, content |-> <<>>]

EntryIdle ==
    /\ epc = "none"
    /\ eData = JNull
    /\ born = <<>>
    /\ ent = NoEntry
    /\ eRes = NoOutcome
    /\ checked = NoCheck
    /\ ePath = <<>>

CryptoIdle ==
    /\ pc = "start"
    /\ plain = <<>>
    /\ encK = <<>>
    /\ env = <<>>
    /\ flip = NoFlip
    /\ decK = <<>>
    /\ res = NoOutcome
    /\ env2 = <<>>
    /\ res2 = NoOutcome

\* no ExtensionFilter call yet
NoCall == [op |-> "none", arg |-> <<>>, before |-> {}]

FilterIdle ==
    /\ filt = {}
    /\ live = {}
    /\ fLast = NoCall

NoTree == [exists |-> FALSE, dirs |-> <<>>, files |-> {}]

\* a scan or a recreate that did not run
NoRun == [o |-> NoOutcome, progress |-> <<>>, log |-> <<>>, disk |-> {}]

NoRecreate == [snapshot |-> NoSnapshot, output_path |-> <<>>, refused |-> {}]

FilesIdle ==
    /\ spc = "idle"
    /\ tree = NoTree
    /\ scanExt = <<>>
    /\ scan = NoRun
    /\ recIn = NoRecreate
    /\ rec = NoRun

\* the copy widget before Create Snapshot is clicked
NoClick == [clicked |-> FALSE, checked |-> FALSE, dialog |-> "none",
            password |-> NonePw, raised |-> NoOutcome]

NoContainer == [written |-> FALSE, data |-> <<>>]

UiIdle ==
    /\ upc = "idle"
    /\ vm = "none"
    /\ workers = <<>>
    /\ events = <<>>
    /\ active = <<>>
    /\ handled = <<>>
    /\ widget = NoClick
    /\ container = NoContainer

LaterIdle == FilterIdle /\ FilesIdle /\ UiIdle

(***************************************************************************)
(* Encryptor scenario: one encrypt, at most one bit flipped in the         *)
(* envelope by the environment, one decrypt.                               *)
(***************************************************************************)
Plaintexts == SeqsUpTo(PlainBytes, MaxPlainLen)

FlipBitAt(data, off, bit) ==
    [data EXCEPT ![off + 1] = XorByte(data[off + 1], Pow2(bit))]

CryptoInit ==
    /\ pc = "start"
    /\ plain = <<>>
    /\ encK = <<>>
    /\ env = <<>>
    /\ flip = NoFlip
    /\ decK = <<>>
    /\ res = NoOutcome
    /\ env2 = <<>>
    /\ res2 = NoOutcome
    /\ RepoIdle
    /\ EntryIdle
    /\ LaterIdle

Encrypt ==
    /\ pc = "start"
    /\ \E p \in Plaintexts, k \in Passwords, salt \in generate_salt, nonce \in generate_nonce :
          /\ plain' = p
          /\ encK' = k
          /\ env' = encrypt(p, k, salt, nonce)
    /\ pc' = "encrypted"
    /\ UNCHANGED <<flip, decK, res, env2, res2>>
    /\ UNCHANGED repoVars
    /\ UNCHANGED entryVars
    /\ UNCHANGED <<filterVars, filesVars, uiVars>>

FlipBit ==
    /\ pc = "encrypted"
    /\ \E off \in 0..(Len(env) - 1), bit \in 0..7 :
          /\ env' = FlipBitAt(env, off, bit)
          /\ flip' = [off |-> off, bit |-> bit]
    /\ pc' = "tampered"
    /\ UNCHANGED <<plain, encK, decK, res, env2, res2>>
    /\ UNCHANGED repoVars
    /\ UNCHANGED entryVars
    /\ UNCHANGED <<filterVars, filesVars, uiVars>>

Decrypt ==
    /\ pc \in {"encrypted", "tampered"}
    /\ \E k \in Passwords :
          /\ decK' = k
          /\ res' = decrypt(env, k)
    /\ pc' = "decrypted"
    /\ UNCHANGED <<plain, encK, env, flip, env2, res2>>
    /\ UNCHANGED repoVars
    /\ UNCHANGED entryVars
    /\ UNCHANGED <<filterVars, filesVars, uiVars>>

\* a second encrypt call with the plaintext and password of the first; the
\* random source is taken never to return the same 44 bytes twice
EncryptAgain ==
    /\ pc = "encrypted"
    /\ \E salt \in generate_salt, nonce \in generate_nonce :
          /\ << salt, nonce >> # << Slice(env, 7, 39), Slice(env, 39, 51) >>
          /\ env2' = encrypt(plain, encK, salt, nonce)
    /\ pc' = "encrypted_twice"
    /\ UNCHANGED <<plain, encK, env, flip, decK, res, res2>>
    /\ UNCHANGED repoVars
    /\ UNCHANGED entryVars
    /\ UNCHANGED <<filterVars, filesVars, uiVars>>

\* both envelopes are decrypted under one password
DecryptBoth ==
    /\ pc = "encrypted_twice"
    /\ \E k \in Passwords :
          /\ decK' = k
          /\ res' = decrypt(env, k)
          /\ res2' = decrypt(env2, k)
    /\ pc' = "decrypted_both"
    /\ UNCHANGED <<plain, encK, env, flip, env2>>
    /\ UNCHANGED repoVars
    /\ UNCHANGED entryVars
    /\ UNCHANGED <<filterVars, filesVars, uiVars>>

\* a valid envelope of the empty plaintext
Envelope0 == encrypt(<<>>, << 97 >>, TokenBytes(SALT_SIZE, 0), TokenBytes(NONCE_SIZE, 7))

\* byte strings no encrypt call returned: empty, "{}", the magic alone, the
\* magic and a version byte, an envelope cut to 66 bytes, envelopes with
\* another version or another first byte, 67 zero bytes; and a valid one
ForeignInputs ==
    { <<>>,
      << 123, 125 >>,
      MAGIC_HEADER,
      MAGIC_HEADER \o << 1 >>,
      MAGIC_HEADER \o << 2 >>,
      Take(Envelope0, 66),
      Take([Envelope0 EXCEPT ![7] = 2], 66),
      [Envelope0 EXCEPT ![7] = 2],
      [Envelope0 EXCEPT ![1] = 115],
      [Envelope0 EXCEPT ![1] = 115, ![7] = 2],
      [i \in 1..67 |-> 0],
      Envelope0 }

\* decrypt called on bytes that did not come from encrypt
DecryptForeign ==
    /\ pc = "start"
    /\ \E data \in ForeignInputs, k \in Passwords :
          /\ env' = data
          /\ decK' = k
          /\ res' = decrypt(data, k)
    /\ pc' = "probed"
    /\ UNCHANGED <<plain, encK, flip, env2, res2>>
    /\ UNCHANGED repoVars
    /\ UNCHANGED entryVars
    /\ UNCHANGED <<filterVars, filesVars, uiVars>>

CryptoReset ==
    /\ pc \in {"decrypted", "decrypted_both", "probed"}
    /\ pc' = "start"
    /\ plain' = <<>>
    /\ encK' = <<>>
    /\ env' = <<>>
    /\ flip' = NoFlip
    /\ decK' = <<>>
    /\ res' = NoOutcome
    /\ env2' = <<>>
    /\ res2' = NoOutcome
    /\ UNCHANGED repoVars
    /\ UNCHANGED entryVars
    /\ UNCHANGED <<filterVars, filesVars, uiVars>>

CryptoNext ==
    \/ Encrypt \/ FlipBit \/ Decrypt
    \/ EncryptAgain \/ DecryptBoth \/ DecryptForeign \/ CryptoReset

SpecCrypto == CryptoInit /\ [][CryptoNext]_vars

(***************************************************************************)
(* Containers written to the container path by something other than save   *)
(* (another tool, an editor, a transfer that damaged the file).            *)
(***************************************************************************)
\* a file entry dict as save writes it
EntryDict(path, content, checksum) ==
    JDict(<< JPair(K_path, JStr(path)),
             JPair(K_size, JInt(Len(content))),
             JPair(K_checksum, JStr(checksum)),
             JPair(K_content_base64, JStr(b64encode(content))) >>)

GoodEntry(path, content) == EntryDict(path, content, calculate_checksum(content))

\* a container document with the given root, directories and file entries
ContainerDoc(root, dirs, entries) ==
    JDict(<< JPair(K_root_path, root),
             JPair(K_created_at, JStr(isoformat(3))),
             JPair(K_metadata, JDict(<<>>)),
             JPair(K_directories, JList(dirs)),
             JPair(K_files, JList(entries)) >>)

RootR == JStr(<< 47, 114 >>)

\* documents whose one file entry declares a checksum that is not the
\* checksum of its content
ChecksumMismatchDocs ==
    { ContainerDoc(RootR, <<>>, << EntryDict(<< 97 >>, << 255 >>, calculate_checksum(<<>>)) >>),
      ContainerDoc(RootR, <<>>, << GoodEntry(<< 98 >>, <<>>),
                                   EntryDict(<< 97 >>, <<>>, << 120 >>) >>) }

\* well-formed JSON documents with no `files` key: {}, a container without
\* its files, 5, [], null
NoFilesKeyDocs ==
    { JDict(<<>>),
      JDict(<< JPair(K_root_path, RootR), JPair(K_directories, JList(<<>>)) >>),
      JInt(5), JList(<<>>), JNull }

\* other documents: a good one, one without a checksum, an entry without a
\* path, no root_path, a duplicate path, files that is no list, an entry
\* that is no dict, directories "." "" "d" "d", content that is no Base64,
\* a root_path that is the number 5
OtherDocs ==
    { ContainerDoc(RootR, << JStr(<< 100 >>) >>, << GoodEntry(<< 97 >>, << 255 >>) >>),
      ContainerDoc(RootR, <<>>,
          << JDict(<< JPair(K_path, JStr(<< 97 >>)),
                      JPair(K_content_base64, JStr(b64encode(<< 255 >>))) >>) >>),
      ContainerDoc(RootR, <<>>, << JDict(<< JPair(K_size, JInt(0)) >>) >>),
      JDict(<< JPair(K_files, JList(<<>>)) >>),
      ContainerDoc(RootR, <<>>, << GoodEntry(<< 97 >>, <<>>), GoodEntry(<< 97 >>, <<>>) >>),
      JDict(<< JPair(K_root_path, RootR), JPair(K_files, JStr(<< 97, 98 >>)) >>),
      JDict(<< JPair(K_root_path, RootR), JPair(K_files, JNull) >>),
      ContainerDoc(RootR, <<>>, << JInt(5) >>),
      ContainerDoc(RootR, << JStr(<< 46 >>), JStr(<<>>), JStr(<< 100 >>), JStr(<< 100 >>) >>, <<>>),
      ContainerDoc(RootR, <<>>,
          << JDict(<< JPair(K_path, JStr(<< 97 >>)),
                      JPair(K_content_base64, JStr(<< 81 >>)) >>) >>),
      ContainerDoc(JInt(5), <<>>, << GoodEntry(<< 97 >>, <<>>) >>) }

\* byte strings that are no UTF-8 text: 0xFF, and '{' followed by a lone
\* lead byte
NotUtf8Bytes == { << 255 >>, << 123, 195 >> }

\* UTF-8 text that is no JSON document: empty, "{", "{} x", a files key
\* whose list is not closed
NotJsonBytes ==
    { <<>>, << 123 >>, << 123, 125, 32, 120 >>,
      << 123, 34, 102, 105, 108, 101, 115, 34, 58, 32, 91 >> }

DocBytes(doc) == Utf8Encode(json_dumps(doc))

PlainPayloads ==
    NotUtf8Bytes \cup NotJsonBytes
        \cup { DocBytes(d) : d \in ChecksumMismatchDocs \cup NoFilesKeyDocs \cup OtherDocs }

\* the password and the random values of the tool that wrote an encrypted
\* foreign container
ForeignPassword == << 97 >>

ForeignSalt == TokenBytes(SALT_SIZE, 0)

ForeignNonce == TokenBytes(NONCE_SIZE, 7)

Sealed(payload) == encrypt(payload, ForeignPassword, ForeignSalt, ForeignNonce)

\* encrypted containers damaged after they were written: the last tag bit
\* flipped, and an envelope cut after its header
DamagedEnvelopes ==
    { FlipBitAt(Sealed(DocBytes(JDict(<<>>))), Len(Sealed(DocBytes(JDict(<<>>)))) - 1, 0),
      MAGIC_HEADER \o << VERSION, 0, 0, 0 >> }

\* payloads that also occur encrypted: no UTF-8, no JSON, no files key, a
\* checksum mismatch, a good document
SealedPayloads ==
    { << 255 >>, << 123 >>, DocBytes(JDict(<<>>)),
      DocBytes(ContainerDoc(RootR, <<>>, << EntryDict(<< 97 >>, << 255 >>, calculate_checksum(<<>>)) >>)),
      DocBytes(ContainerDoc(RootR, << JStr(<< 100 >>) >>, << GoodEntry(<< 97 >>, << 255 >>) >>)) }

ForeignContainers ==
    PlainPayloads \cup { Sealed(b) : b \in SealedPayloads } \cup DamagedEnvelopes

(***************************************************************************)
(* Repository scenario: a snapshot is built through the constructor,       *)
(* add_directory and add_file (a FileEntry's content may be reassigned     *)
(* afterwards), saved, and the container is loaded; or a foreign container *)
(* is found at the path and loaded.                                        *)
(***************************************************************************)
\* what the disk answers when save opens the container for writing
DiskAnswers == { "ok", "denied" }

RepoPasswords == { NonePw, SomePw(<<>>), SomePw(<< 97 >>), SomePw(<< 233 >>) }

RepoInit ==
    /\ rpc = "init"
    /\ ossep \in {47, 92}
    /\ snap = NoSnapshot
    /\ fs = EmptyFs
    /\ savePw = NonePw
    /\ saveRes = NoOutcome
    /\ loadPw = NonePw
    /\ loadRes = NoLoad
    /\ execRes = NoOutcome
    /\ CryptoIdle
    /\ EntryIdle
    /\ LaterIdle

\* containers found at the path when a snapshot is built and saved over them
OverwrittenContainers == { DocBytes(JDict(<<>>)) }

NewSnapshot ==
    /\ \/ rpc = "init"
       \/ rpc = "planted" /\ fs.data \in OverwrittenContainers
    /\ \E root \in RootPaths, now \in ClockTicks :
          snap' = DirectorySnapshot(JStr(root), now, JDict(<<>>))
    /\ rpc' = "building"
    /\ UNCHANGED <<ossep, fs, savePw, saveRes, loadPw, loadRes, execRes>>
    /\ UNCHANGED cryptoVars
    /\ UNCHANGED entryVars
    /\ UNCHANGED <<filterVars, filesVars, uiVars>>

AddDirectory ==
    /\ rpc = "building"
    /\ Len(snap.directories) < MaxDirs
    /\ \E d \in DirPaths : snap' = add_directory(snap, d, ossep)
    /\ UNCHANGED <<rpc, ossep, fs, savePw, saveRes, loadPw, loadRes, execRes>>
    /\ UNCHANGED cryptoVars
    /\ UNCHANGED entryVars
    /\ UNCHANGED <<filterVars, filesVars, uiVars>>

AddFile ==
    /\ rpc = "building"
    /\ Len(snap.files) < MaxFiles
    /\ \E path \in FilePaths, content \in Contents :
          snap' = add_file(snap, FileEntry(path, content, ossep))
    /\ UNCHANGED <<rpc, ossep, fs, savePw, saveRes, loadPw, loadRes, execRes>>
    /\ UNCHANGED cryptoVars
    /\ UNCHANGED entryVars
    /\ UNCHANGED <<filterVars, filesVars, uiVars>>

\* file_entry.content = content, after construction (explored while no
\* other entry is stale)
AssignContent ==
    /\ rpc = "building"
    /\ \A i \in 1..Len(snap.files) : validate_checksum(snap.files[i])
    /\ \E i \in 1..Len(snap.files), content \in Contents :
          snap' = [snap EXCEPT !.files[i].content = content]
    /\ UNCHANGED <<rpc, ossep, fs, savePw, saveRes, loadPw, loadRes, execRes>>
    /\ UNCHANGED cryptoVars
    /\ UNCHANGED entryVars
    /\ UNCHANGED <<filterVars, filesVars, uiVars>>

\* the state after save returned r
SaveReturned(pw, r) ==
    /\ savePw' = pw
    /\ saveRes' = r.o
    /\ snap' = r.snapshot
    /\ fs' = r.fs

Save ==
    /\ rpc = "building"
    /\ \E pw \in RepoPasswords :
          \E salt \in (IF PwTruthy(pw) THEN generate_salt ELSE { ForeignSalt }),
             nonce \in (IF PwTruthy(pw) THEN generate_nonce ELSE { ForeignNonce }),
             disk \in DiskAnswers :
             SaveReturned(pw, save(snap, fs, pw, salt, nonce, disk))
    /\ rpc' = "saved"
    /\ UNCHANGED <<ossep, loadPw, loadRes, execRes>>
    /\ UNCHANGED cryptoVars
    /\ UNCHANGED entryVars
    /\ UNCHANGED <<filterVars, filesVars, uiVars>>

\* SaveSnapshotUseCase.execute(snap, path)
ExecuteSave ==
    /\ rpc = "building"
    /\ \E disk \in DiskAnswers :
          SaveReturned(NonePw, SaveSnapshotUseCase_execute(snap, fs, ForeignSalt, ForeignNonce, disk))
    /\ rpc' = "saved"
    /\ UNCHANGED <<ossep, loadPw, loadRes, execRes>>
    /\ UNCHANGED cryptoVars
    /\ UNCHANGED entryVars
    /\ UNCHANGED <<filterVars, filesVars, uiVars>>

PlantContainer ==
    /\ rpc = "init"
    /\ \E b \in ForeignContainers :
          fs' = [parent |-> TRUE, exists |-> TRUE, data |-> b]
    /\ rpc' = "planted"
    /\ UNCHANGED <<ossep, snap, savePw, saveRes, loadPw, loadRes, execRes>>
    /\ UNCHANGED cryptoVars
    /\ UNCHANGED entryVars
    /\ UNCHANGED <<filterVars, filesVars, uiVars>>

\* the state after LoadSnapshotUseCase.execute ended with u
LoadReturned(pw, u) ==
    /\ loadPw' = pw
    /\ loadRes' = u.repo
    /\ execRes' = u.o

Load ==
    /\ rpc \in {"init", "saved", "planted"}
    /\ \E pw \in RepoPasswords, now \in ClockTicks :
          LoadReturned(pw, LoadSnapshotUseCase_execute(fs, pw, ossep, now))
    /\ rpc' = "loaded"
    /\ UNCHANGED <<ossep, snap, fs, savePw, saveRes>>
    /\ UNCHANGED cryptoVars
    /\ UNCHANGED entryVars
    /\ UNCHANGED <<filterVars, filesVars, uiVars>>

RepoReset ==
    /\ rpc = "loaded"
    /\ rpc' = "init"
    /\ snap' = NoSnapshot
    /\ fs' = EmptyFs
    /\ savePw' = NonePw
    /\ saveRes' = NoOutcome
    /\ loadPw' = NonePw
    /\ loadRes' = NoLoad
    /\ execRes' = NoOutcome
    /\ UNCHANGED ossep
    /\ UNCHANGED cryptoVars
    /\ UNCHANGED entryVars
    /\ UNCHANGED <<filterVars, filesVars, uiVars>>

RepoNext ==
    \/ NewSnapshot \/ AddDirectory \/ AddFile \/ AssignContent
    \/ Save \/ ExecuteSave \/ PlantContainer \/ Load \/ RepoReset

SpecRepo == RepoInit /\ [][RepoNext]_vars

(***************************************************************************)
(* File entry scenario: one FileEntry is made by the constructor or by     *)
(* from_dict; afterwards its content is reassigned and validate_checksum   *)
(* is called, in any order.                                                *)
(***************************************************************************)
\* contents: empty, and two of the same length
EntryContents == { <<>>, << 7 >>, << 9 >> }

\* paths: "a" and d, backslash, e
EntryPaths == { << 97 >>, << 100, 92, 101 >> }

\* values of the checksum key: the digests of the contents, "x", the number 5
DeclaredChecksums ==
    { JStr(calculate_checksum(c)) : c \in EntryContents } \cup { JStr(<< 120 >>), JInt(5) }

\* dicts handed to from_dict: a path alone, a path and a checksum, a
\* checksum alone, a path that is no str
FromDictInputs ==
    { JDict(<< JPair(K_path, JStr(p)) >>) : p \in EntryPaths }
        \cup { JDict(<< JPair(K_path, JStr(p)), JPair(K_checksum, d) >>) :
                   p \in EntryPaths, d \in DeclaredChecksums }
        \cup { JDict(<< JPair(K_checksum, JStr(<< 120 >>)) >>),
                JDict(<< JPair(K_path, JInt(5)), JPair(K_checksum, JStr(<< 120 >>)) >>) }

EntryInit == RepoInit

\* FileEntry(relative_path=path, content=content)
Construct ==
    /\ epc = "none"
    /\ \E path \in EntryPaths, content \in EntryContents :
          /\ born' = content
          /\ ePath' = path
          /\ ent' = FileEntry(path, content, ossep)
          /\ eRes' = Return(FileEntry(path, content, ossep))
    /\ eData' = JNull
    /\ epc' = "made"
    /\ UNCHANGED checked
    /\ UNCHANGED cryptoVars
    /\ UNCHANGED repoVars
    /\ UNCHANGED <<filterVars, filesVars, uiVars>>

\* the state after FileEntry.from_dict(data, content) ended with r
FromDictReturned(data, content, r) ==
    /\ eData' = data
    /\ born' = content
    /\ ePath' = IF HasKey(data, K_path) /\ GetKey(data, K_path).t = "str"
                 THEN GetKey(data, K_path).s ELSE <<>>
    /\ eRes' = r
    /\ ent' = IF r.kind = "return" THEN r.value ELSE NoEntry
    /\ epc' = IF r.kind = "return" THEN "made" ELSE "failed"

FromDict ==
    /\ epc = "none"
    /\ \E data \in FromDictInputs, content \in EntryContents :
          FromDictReturned(data, content, FileEntry_from_dict(data, content, ossep))
    /\ UNCHANGED checked
    /\ UNCHANGED cryptoVars
    /\ UNCHANGED repoVars
    /\ UNCHANGED <<filterVars, filesVars, uiVars>>

\* file_entry.content = content
AssignEntryContent ==
    /\ epc = "made"
    /\ \E content \in EntryContents : ent' = [ent EXCEPT !.content = content]
    /\ UNCHANGED <<epc, eData, born, eRes, checked, ePath>>
    /\ UNCHANGED cryptoVars
    /\ UNCHANGED repoVars
    /\ UNCHANGED <<filterVars, filesVars, uiVars>>

\* file_entry.validate_checksum()
ValidateChecksum ==
    /\ epc = "made"
    /\ checked' = [called |-> TRUE, result |-> validate_checksum(ent), content |-> ent.content]
    /\ UNCHANGED <<epc, eData, born, ent, eRes, ePath>>
    /\ UNCHANGED cryptoVars
    /\ UNCHANGED repoVars
    /\ UNCHANGED <<filterVars, filesVars, uiVars>>

EntryReset ==
    /\ epc \in {"made", "failed"}
    /\ epc' = "none"
    /\ eData' = JNull
    /\ born' = <<>>
    /\ ent' = NoEntry
    /\ eRes' = NoOutcome
    /\ checked' = NoCheck
    /\ ePath' = <<>>
    /\ UNCHANGED cryptoVars
    /\ UNCHANGED repoVars
    /\ UNCHANGED <<filterVars, filesVars, uiVars>>

EntryNext == Construct \/ FromDict \/ AssignEntryContent \/ ValidateChecksum \/ EntryReset

SpecEntry == EntryInit /\ [][EntryNext]_vars

(***************************************************************************)
(* Claims about the encryptor (checked under SpecCrypto).                  *)
(***************************************************************************)

\* C1: decrypt(encrypt(p, k), k) returns exactly p, for every plaintext and
\* password, the empty ones included.
C1_RoundTrip ==
    (pc = "decrypted" /\ flip = NoFlip /\ decK = encK)
        => (res.kind = "return" /\ res.value = plain)

C1_Witness ==
    pc = "decrypted" /\ flip = NoFlip /\ decK = encK /\ encK # <<>>
        /\ Len(plain) > 0 /\ res.kind = "return"

\* C2: after one bit of a valid envelope is flipped at an offset >= 7 (salt,
\* nonce or ciphertext+tag), decrypt under the encryption password raises
\* InvalidPasswordError and returns nothing.
C2_TamperDetected ==
    (pc = "decrypted" /\ flip.off >= 7 /\ decK = encK)
        => (res.kind = "raise" /\ res.exc = "InvalidPasswordError")

C2_Witness ==
    pc = "decrypted" /\ decK = encK /\ res.kind = "raise"
        /\ flip.off >= Len(MAGIC_HEADER) + 1 + SALT_SIZE + NONCE_SIZE
        /\ flip.off < Len(env) - TAG_SIZE

\* C3: decrypt(encrypt(p, k1), k2) raises InvalidPasswordError whenever
\* k1 # k2.
C3_WrongPassword ==
    (pc = "decrypted" /\ flip = NoFlip /\ decK # encK)
        => (res.kind = "raise" /\ res.exc = "InvalidPasswordError")

(***************************************************************************)
(* Claims about the repository (checked under SpecRepo).                   *)
(***************************************************************************)
\* two file sequences agree on relative_path, size, checksum and content
SameFiles(a, b) ==
    /\ Len(a) = Len(b)
    /\ \A i \in 1..Len(a) :
          /\ a[i].relative_path = b[i].relative_path
          /\ a[i].size = b[i].size
          /\ a[i].checksum = b[i].checksum
          /\ a[i].content = b[i].content

\* the container at the path was written by a save that returned, and load
\* has been called on it
SavedAndLoaded == rpc = "loaded" /\ saveRes.kind = "return"

\* C4: a snapshot that passes validate(), saved with no password and loaded
\* with no password, comes back with the same root_path, the same list of
\* directory paths and the same files (relative_path, size, checksum,
\* content).
C4_PlainRoundTrip ==
    (SavedAndLoaded /\ savePw = NonePw /\ loadPw = NonePw)
        => /\ loadRes.o.kind = "return"
           /\ loadRes.o.value.root_path = snap.root_path
           /\ loadRes.o.value.directories = snap.directories
           /\ SameFiles(loadRes.o.value.files, snap.files)

C4_Witness ==
    /\ SavedAndLoaded /\ savePw = NonePw /\ loadPw = NonePw
    /\ loadRes.o.kind = "return"
    /\ Len(snap.directories) = 2
    /\ Len(snap.files) = 2
    /\ \E i \in 1..Len(snap.files) : Len(snap.files[i].content) > 0

\* C5: a snapshot that passes validate(), saved with a non-empty password
\* and loaded with the same password, comes back with the same root_path and
\* the same files (relative_path, size, checksum, content).
C5_EncryptedRoundTrip ==
    (SavedAndLoaded /\ PwTruthy(savePw) /\ loadPw = savePw)
        => /\ loadRes.o.kind = "return"
           /\ loadRes.o.value.root_path = snap.root_path
           /\ SameFiles(loadRes.o.value.files, snap.files)

C5_Witness ==
    /\ SavedAndLoaded /\ PwTruthy(savePw) /\ loadPw = savePw
    /\ is_encrypted(fs.data)
    /\ loadRes.o.kind = "return"
    /\ Len(snap.files) = 2
    /\ \E i \in 1..Len(snap.files) : Len(snap.files[i].content) > 0

\* a file that holds the bytes b
FsWith(b) == [parent |-> TRUE, exists |-> TRUE, data |-> b]

\* the payloads of the planted containers, by what is wrong with them
ChecksumMismatchPayloads == { DocBytes(d) : d \in ChecksumMismatchDocs }

NoFilesKeyPayloads == { DocBytes(d) : d \in NoFilesKeyDocs }

MalformedPayloads == NotUtf8Bytes \cup NotJsonBytes \cup NoFilesKeyPayloads

\* load has been called on a container whose payload is in S: written
\* plain, or encrypted and loaded with the password it was encrypted under
LoadedPayloadIn(S) ==
    /\ rpc = "loaded"
    /\ fs.exists
    /\ \/ fs.data \in S
       \/ /\ loadPw = SomePw(ForeignPassword)
          /\ \E b \in S \cap SealedPayloads : fs.data = Sealed(b)

\* the failure mode of the load call that has just been made, "none" when
\* it is not one of the five
LoadMode ==
    IF rpc # "loaded" THEN "none"
    ELSE IF ~fs.exists THEN "missing"
    ELSE IF is_encrypted(fs.data) /\ ~PwTruthy(loadPw) THEN "no_password"
    ELSE IF is_encrypted(fs.data) /\ saveRes.kind = "return" /\ loadPw # savePw
    THEN "wrong_password"
    ELSE IF fs.data \in NotJsonBytes THEN "corrupted_json"
    ELSE IF fs.data \in ChecksumMismatchPayloads THEN "checksum_mismatch"
    ELSE "none"

FailureModes ==
    { "missing", "no_password", "wrong_password", "corrupted_json", "checksum_mismatch" }

\* the error kinds load reports for containers of each failure mode
MissingKinds == { load(EmptyFs, NonePw, 47, 12).o.exc }

NoPasswordKinds == { load(FsWith(Sealed(DocBytes(JDict(<<>>)))), NonePw, 47, 12).o.exc }

WrongPasswordKinds ==
    { load(FsWith(Sealed(DocBytes(JDict(<<>>)))), SomePw(<< 233 >>), 47, 12).o.exc }

CorruptedJsonKinds == { load(FsWith(b), NonePw, 47, 12).o.exc : b \in NotJsonBytes }

ChecksumMismatchKinds ==
    { load(FsWith(b), NonePw, 47, 12).o.exc : b \in ChecksumMismatchPayloads }

ModeKinds(m) ==
    CASE m = "missing"           -> MissingKinds
      [] m = "no_password"       -> NoPasswordKinds
      [] m = "wrong_password"    -> WrongPasswordKinds
      [] m = "corrupted_json"    -> CorruptedJsonKinds
      [] m = "checksum_mismatch" -> ChecksumMismatchKinds

\* C6: load reports its five failure modes (missing file, encrypted without
\* password, wrong password, corrupted JSON, checksum mismatch) with five
\* pairwise different error kinds, none of them the generic RepositoryError.
C6_FiveErrorKinds ==
    (LoadMode \in FailureModes)
        => /\ loadRes.o.kind = "raise"
           /\ loadRes.o.exc # "RepositoryError"
           /\ \A m \in FailureModes \ { LoadMode } : loadRes.o.exc \notin ModeKinds(m)

\* load has been called with a non-empty password on an encrypted container
\* that fails authentication under it
AuthenticationFailed ==
    /\ rpc = "loaded"
    /\ fs.exists
    /\ is_encrypted(fs.data)
    /\ PwTruthy(loadPw)
    /\ decrypt(fs.data, loadPw.s).kind = "raise"
    /\ decrypt(fs.data, loadPw.s).exc = "InvalidPasswordError"

\* C7: the InvalidPasswordError the encryption service raises reaches the
\* caller of load and of LoadSnapshotUseCase.execute unchanged.
C7_InvalidPasswordPropagates ==
    AuthenticationFailed
        => /\ loadRes.o = decrypt(fs.data, loadPw.s)
           /\ execRes = decrypt(fs.data, loadPw.s)

C7_Witness ==
    /\ AuthenticationFailed
    /\ SavedAndLoaded /\ PwTruthy(savePw) /\ loadPw # savePw
    /\ execRes.exc = "InvalidPasswordError"

\* C8: load without a password on an encrypted container fails with a
\* DecryptionError that is no InvalidPasswordError, without calling decrypt
\* and without handing the bytes to the JSON stage.
C8_PasswordRequired ==
    (rpc = "loaded" /\ fs.exists /\ is_encrypted(fs.data) /\ ~PwTruthy(loadPw))
        => /\ loadRes.o.kind = "raise"
           /\ IsInstance(loadRes.o.exc, "DecryptionError")
           /\ ~IsInstance(loadRes.o.exc, "InvalidPasswordError")
           /\ ~loadRes.decrypt_called
           /\ ~loadRes.json_parsed

C8_Witness ==
    /\ SavedAndLoaded /\ PwTruthy(savePw) /\ is_encrypted(fs.data)
    /\ loadPw = NonePw
    /\ loadRes.o.exc = "DecryptionError"
    /\ ~loadRes.decrypt_called

\* C9: load of a container in which a file entry's stored checksum differs
\* from the checksum of its decoded content fails with ValidationError or a
\* subtype of it.
C9_ChecksumMismatchKind ==
    LoadedPayloadIn(ChecksumMismatchPayloads)
        => /\ loadRes.o.kind = "raise"
           /\ IsInstance(loadRes.o.exc, "ValidationError")

\* C10: load of a container whose (decrypted) bytes are not well-formed
\* UTF-8 JSON, or whose document has no `files` key, fails with
\* InvalidSnapshotError and with no other kind.
C10_MalformedKind ==
    LoadedPayloadIn(MalformedPayloads)
        => /\ loadRes.o.kind = "raise"
           /\ loadRes.o.exc = "InvalidSnapshotError"

(***************************************************************************)
(* Further claims about the repository (checked under SpecRepo).           *)
(***************************************************************************)

\* C11: a save of a snapshot that fails validate() raises and does no I/O:
\* the parent directory and the file at the path are as before, and no
\* FileEntry has its encoded content set.
C11_InvalidSaveNoIO ==
    [][(rpc = "building" /\ rpc' = "saved" /\ validate(snap).kind = "raise")
          => /\ saveRes'.kind = "raise"
             /\ fs' = fs
             /\ snap' = snap
             /\ \A i \in 1..Len(snap'.files) : ~snap'.files[i].has_encoded]_vars

C11_Witness ==
    /\ rpc = "saved"
    /\ saveRes.kind = "raise"
    /\ PyTruthy(snap.root_path)
    /\ \E i \in 1..Len(snap.files) : ~validate_checksum(snap.files[i])
    /\ fs.exists
    /\ fs.data \in OverwrittenContainers

\* C12: after a save that returned, the bytes at the path are an encrypted
\* envelope exactly when the password was a non-empty string; for None and
\* "" they are the UTF-8 JSON text of the snapshot's dict, which is never
\* taken for an envelope.
C12_EnvelopeIffPassword ==
    (rpc = "saved" /\ saveRes.kind = "return")
        => /\ (is_encrypted(fs.data) <=> PwTruthy(savePw))
           /\ (~PwTruthy(savePw)
                 => /\ Utf8Decode(fs.data).kind = "return"
                    /\ json_loads(Utf8Decode(fs.data).value) = Snapshot_to_dict(snap))

C12_Witness ==
    /\ rpc = "saved"
    /\ saveRes.kind = "return"
    /\ savePw = SomePw(<<>>)
    /\ Len(snap.files) > 0
    /\ ~is_encrypted(fs.data)

\* Python values that are false in a condition
EmptyValues == { JNull, JBool(FALSE), JInt(0), JStr(<<>>), JList(<<>>), JDict(<<>>) }

\* the four conditions validate() is to enforce
ValidSnapshot(s) ==
    /\ s.root_path \notin EmptyValues
    /\ \A i \in 1..Len(s.files) :
          s.files[i].checksum = calculate_checksum(s.files[i].content)
    /\ \A i, j \in 1..Len(s.files) :
          i # j => s.files[i].relative_path # s.files[j].relative_path
    /\ \A i, j \in 1..Len(s.directories) :
          i # j => s.directories[i] # s.directories[j]

\* C17: validate() returns True exactly when root_path is non-empty, every
\* file's stored checksum is the checksum of its content, no two files share
\* a path and no two directories share a path; otherwise it raises
\* ValidationError.
C17_ValidateIff ==
    /\ ValidSnapshot(snap) => validate(snap) = Return(TRUE)
    /\ ~ValidSnapshot(snap)
          => (validate(snap).kind = "raise" /\ validate(snap).exc = "ValidationError")
    /\ (rpc = "saved" /\ saveRes.kind = "return") => ValidSnapshot(snap)

C17_Witness ==
    /\ rpc = "saved"
    /\ saveRes.kind = "raise"
    /\ snap.root_path \notin EmptyValues
    /\ Len(snap.files) = 2
    /\ snap.files[1].relative_path # snap.files[2].relative_path
    /\ \A i \in 1..Len(snap.files) : validate_checksum(snap.files[i])
    /\ Len(snap.directories) = 2
    /\ snap.directories[1] = snap.directories[2]
    /\ fs = EmptyFs

\* a snapshot that meets the conditions of validate() and whose files have
\* the size of their content
WellFormed(s) ==
    /\ ValidSnapshot(s)
    /\ \A i \in 1..Len(s.files) : s.files[i].size = Len(s.files[i].content)

\* C18: every snapshot load returns, and every snapshot
\* LoadSnapshotUseCase.execute returns, has a non-empty root_path, unique
\* file paths, unique directory paths, and for every file the size and the
\* checksum of its content, whatever the bytes of the container were.
C18_LoadedSnapshotValid ==
    /\ (rpc = "loaded" /\ loadRes.o.kind = "return") => WellFormed(loadRes.o.value)
    /\ (rpc = "loaded" /\ execRes.kind = "return") => WellFormed(execRes.value)

C18_Witness ==
    /\ rpc = "loaded"
    /\ saveRes = NoOutcome
    /\ is_encrypted(fs.data)
    /\ loadRes.o.kind = "return"
    /\ execRes.kind = "return"
    /\ Len(execRes.value.files) > 0
    /\ Len(execRes.value.directories) > 0

(***************************************************************************)
(* Further claims about the encryptor (checked under SpecCrypto).          *)
(***************************************************************************)
\* data has at least 7 bytes, starts with SAGENC and its 7th byte is 1
IsEnvelopeStart(data) ==
    /\ Len(data) >= 7
    /\ SubSeq(data, 1, 6) = << 83, 65, 71, 69, 78, 67 >>
    /\ data[7] = 1

\* C13: is_encrypted(data) is true exactly when data has at least 7 bytes,
\* begins with the 6 bytes SAGENC and has 1 as its 7th byte: false for the
\* empty input, for plain JSON and for another version byte, true for every
\* output of encrypt.
C13_IsEncryptedIff ==
    /\ (is_encrypted(env) <=> IsEnvelopeStart(env))
    /\ (pc = "encrypted" => is_encrypted(env))
    /\ (pc = "encrypted_twice" => is_encrypted(env2))

C13_Witness ==
    /\ pc = "probed"
    /\ Len(env) >= 67
    /\ SubSeq(env, 1, 6) = MAGIC_HEADER
    /\ env[7] = 2
    /\ ~is_encrypted(env)

\* what decrypt is to report for a structurally invalid input
StructurallyInvalid(data) == Len(data) < 67 \/ ~IsEnvelopeStart(data)

ExpectedRejection(data) ==
    IF Len(data) < 67 THEN "too short"
    ELSE IF SubSeq(data, 1, 6) # << 83, 65, 71, 69, 78, 67 >> THEN "missing magic header"
    ELSE "unsupported version"

\* C14: decrypt rejects every structurally invalid input with a
\* DecryptionError that is no InvalidPasswordError, reporting in this order:
\* fewer than 67 bytes as too short, otherwise another magic as not an
\* encrypted file, otherwise another version byte as an unsupported version.
C14_StructuralRejection ==
    (pc \in {"decrypted", "probed"} /\ StructurallyInvalid(env))
        => /\ res.kind = "raise"
           /\ res.exc = "DecryptionError"
           /\ res.msg = ExpectedRejection(env)

\* C15: encrypt(p, k) is SAGENC, the version byte 1, the 32-byte salt, the
\* 12-byte nonce and the ciphertext with its tag, 67 + len(p) bytes in all.
C15_EnvelopeLayout ==
    (pc = "encrypted")
        => /\ Len(env) = 67 + Len(plain)
           /\ SubSeq(env, 1, 6) = << 83, 65, 71, 69, 78, 67 >>
           /\ env[7] = 1
           /\ SubSeq(env, 8, 39) \in generate_salt
           /\ SubSeq(env, 40, 51) \in generate_nonce
           /\ SubSeq(env, 52, Len(env))
                  = AESGCM_encrypt(derive_key(encK, SubSeq(env, 8, 39)),
                                   SubSeq(env, 40, 51), plain)

C15_Witness ==
    pc = "encrypted" /\ Len(plain) > 0 /\ Len(encK) > 0 /\ Len(env) > 67

\* C16: two encrypt calls with the same plaintext and password return two
\* different byte strings, and both decrypt to the plaintext under the
\* password.
C16_FreshEnvelopes ==
    /\ (pc \in {"encrypted_twice", "decrypted_both"} => env2 # env)
    /\ (pc = "decrypted_both" /\ decK = encK)
          => (res = Return(plain) /\ res2 = Return(plain))

C16_Witness ==
    /\ pc = "decrypted_both"
    /\ decK = encK
    /\ Len(plain) > 0
    /\ Slice(env2, 7, 39) = Slice(env, 7, 39)
    /\ res2 = Return(plain)

(***************************************************************************)
(* Claims about FileEntry (checked under SpecEntry).                       *)
(***************************************************************************)
\* from_dict was called with a dict that has a str path and a checksum
FromDictDeclared ==
    /\ epc \in {"made", "failed"}
    /\ eData.t = "dict"
    /\ HasKey(eData, K_path)
    /\ GetKey(eData, K_path).t = "str"
    /\ HasKey(eData, K_checksum)

\* C19: from_dict(data, content) raises ValidationError whenever data
\* declares a checksum that is not the digest of content, and returns an
\* entry only when the declared checksum is that digest.
C19_FromDictChecksum ==
    FromDictDeclared
        => /\ (GetKey(eData, K_checksum) # JStr(calculate_checksum(born)))
                 => (eRes.kind = "raise" /\ eRes.exc = "ValidationError")
           /\ (eRes.kind = "return")
                 => /\ GetKey(eData, K_checksum) = JStr(calculate_checksum(born))
                    /\ eRes.value.content = born

C19_Witness ==
    /\ FromDictDeclared
    /\ epc = "failed"
    /\ born = << 9 >>
    /\ GetKey(eData, K_checksum) = JStr(calculate_checksum(<< 7 >>))
    /\ eRes.exc = "ValidationError"

\* C20: the checksum and the size of a FileEntry stay those of the content
\* it was constructed with, whatever is assigned to content afterwards, and
\* validate_checksum() returns True exactly when the digest of the current
\* content is the stored checksum.
C20_ChecksumFixed ==
    (epc = "made")
        => /\ ent.checksum = calculate_checksum(born)
           /\ ent.size = Len(born)
           /\ checked.called
                 => (checked.result <=> (calculate_checksum(checked.content) = ent.checksum))

C20_Witness ==
    /\ epc = "made"
    /\ checked.called
    /\ ~checked.result
    /\ checked.content = ent.content
    /\ ent.content # born
    /\ Len(ent.content) = Len(born)
    /\ ent.size = Len(born)

(***************************************************************************)
(* Path normalisation of the entries.                                      *)
(***************************************************************************)
\* the forward-slash form of a path: every backslash replaced by '/'
ForwardSlash(path) == [i \in 1..Len(path) |-> IF path[i] = 92 THEN 47 ELSE path[i]]

\* C21: the relative_path a FileEntry stores is the forward-slash form of
\* the path it was constructed with (every backslash replaced by '/'), on a
\* host of either path separator.
C21_ForwardSlashPath == epc = "made" => ent.relative_path = ForwardSlash(ePath)

(***************************************************************************)
(* Stored checksums of a loaded container.                                 *)
(***************************************************************************)
\* the file entries of a container document
EntriesOf(d) ==
    IF d.t = "dict" /\ HasKey(d, K_files) /\ GetKey(d, K_files).t = "list"
    THEN GetKey(d, K_files).items
    ELSE <<>>

\* e is a file entry whose content decodes
IsFileEntry(e) ==
    /\ e.t = "dict"
    /\ HasKey(e, K_content_base64)
    /\ GetKey(e, K_content_base64).t = "str"
    /\ b64decode(GetKey(e, K_content_base64).s).kind = "return"

\* the file entry e carries the checksum of its decoded content
CarriesChecksum(e) ==
    /\ HasKey(e, K_checksum)
    /\ GetKey(e, K_checksum)
         = JStr(calculate_checksum(b64decode(GetKey(e, K_content_base64).s).value))

\* the foreign container documents of the repository scenario
PlantedDocs == ChecksumMismatchDocs \cup NoFilesKeyDocs \cup OtherDocs

\* containers with a file entry that carries no checksum of its content:
\* the field is missing or holds another value
UnverifiedContainers ==
    { DocBytes(d) : d \in { x \in PlantedDocs :
          \E i \in 1..Len(EntriesOf(x)) :
              IsFileEntry(EntriesOf(x)[i]) /\ ~CarriesChecksum(EntriesOf(x)[i]) } }

\* containers with a file entry whose checksum field holds another value
\* than the checksum of its content
WrongChecksumContainers ==
    { DocBytes(d) : d \in { x \in PlantedDocs :
          \E i \in 1..Len(EntriesOf(x)) :
              /\ IsFileEntry(EntriesOf(x)[i])
              /\ HasKey(EntriesOf(x)[i], K_checksum)
              /\ ~CarriesChecksum(EntriesOf(x)[i]) } }

\* the container whose one entry, "a" with content 0xFF, has no checksum
NoChecksumContainer ==
    DocBytes(ContainerDoc(RootR, <<>>,
        << JDict(<< JPair(K_path, JStr(<< 97 >>)),
                    JPair(K_content_base64, JStr(b64encode(<< 255 >>))) >>) >>))

\* C27: load returns a snapshot only if every file entry of the container
\* carries a stored checksum equal to the checksum of its decoded content;
\* an entry with no checksum field is rejected.
C27_ChecksumRequired ==
    LoadedPayloadIn(UnverifiedContainers) => loadRes.o.kind = "raise"

\* the planted containers above, sealed under the foreign password
SealedWrongChecksumContainers ==
    { Sealed(b) : b \in WrongChecksumContainers \cap SealedPayloads }

SealedNoChecksumContainers ==
    { Sealed(b) : b \in { NoChecksumContainer } \cap SealedPayloads }

\* load has just read a container of P as it is, or one of S with the
\* password it was sealed under
LoadedContainerIn(P, S) ==
    /\ rpc = "loaded"
    /\ fs.exists
    /\ \/ fs.data \in P
       \/ /\ loadPw = SomePw(ForeignPassword)
          /\ fs.data \in S

\* C27 (amended): load returns a snapshot only if every file entry of the
\* container that has a checksum field carries the checksum of its decoded
\* content; an entry with no checksum field is accepted, with the checksum
\* of its decoded content.
C27_DeclaredChecksumChecked ==
    /\ LoadedContainerIn(WrongChecksumContainers, SealedWrongChecksumContainers)
          => loadRes.o.kind = "raise"
    /\ LoadedContainerIn({ NoChecksumContainer }, SealedNoChecksumContainers)
          => /\ loadRes.o.kind = "return"
             /\ loadRes.o.value.files = << FileEntry(<< 97 >>, << 255 >>, ossep) >>

\* an encrypted container with a wrong declared checksum was opened with
\* its password and rejected
C27_Witness ==
    /\ LoadedPayloadIn(WrongChecksumContainers)
    /\ is_encrypted(fs.data)
    /\ loadRes.decrypt_called
    /\ loadRes.json_parsed
    /\ loadRes.o.kind = "raise"

(***************************************************************************)
(* Extension filter scenario: an ExtensionFilter built from an empty list, *)
(* then any sequence of add_extension, remove_extension, set_extensions    *)
(* and clear calls.                                                        *)
(***************************************************************************)
AllIdle == CryptoIdle /\ RepoIdle /\ EntryIdle /\ LaterIdle

\* str.lower() on the code points of the model: ASCII and Latin-1 letters
lower(s) ==
    [i \in 1..Len(s) |->
        IF s[i] \in 65..90 \/ (s[i] \in 192..222 /\ s[i] # 215) THEN s[i] + 32 ELSE s[i]]

\* str.startswith('.')
startswith_dot(s) == Len(s) > 0 /\ s[1] = 46

\* add_extension without the lower() call
add_extension_NoLower(exts, extension) ==
    exts \cup { IF startswith_dot(extension) THEN extension ELSE << 46 >> \o extension }

\* ExtensionFilter.add_extension: the new value of _extensions
add_extension(exts, extension) ==
    exts \cup { lower(IF startswith_dot(extension) THEN extension ELSE << 46 >> \o extension) }

\* ExtensionFilter.remove_extension: the new value of _extensions
remove_extension(exts, extension) ==
    exts \ { lower(IF startswith_dot(extension) THEN extension ELSE << 46 >> \o extension) }

\* the loop of set_extensions and of __init__ from position i on
RECURSIVE add_all(_, _, _)
add_all(exts, extensions, i) ==
    IF i > Len(extensions) THEN exts
    ELSE add_all(add_extension(exts, extensions[i]), extensions, i + 1)

\* ExtensionFilter.set_extensions: the new value of _extensions
set_extensions(extensions) == add_all({}, extensions, 1)

\* ExtensionFilter.__contains__
Filter_contains(exts, extension) ==
    lower(IF startswith_dot(extension) THEN extension ELSE << 46 >> \o extension) \in exts

\* a < b for two str values: code points compared position by position
StrLess(a, b) ==
    \E k \in 1..(Len(b)) :
        /\ \A j \in 1..(k - 1) : j <= Len(a) /\ a[j] = b[j]
        /\ (k > Len(a) \/ (k <= Len(a) /\ a[k] < b[k]))

\* sorted(S) for a set of str values
RECURSIVE sorted(_)
sorted(S) ==
    IF S = {} THEN <<>>
    ELSE << CHOOSE m \in S : \A o \in S \ {m} : StrLess(m, o) >>
            \o sorted(S \ { CHOOSE m \in S : \A o \in S \ {m} : StrLess(m, o) })

\* ExtensionFilter.get_extensions
get_extensions(exts) == sorted(exts)

\* arguments: "py", ".py", ".PY", "Py", "txt", ".TXT", "", ".", "md", ".Md",
\* "c", ".C", "..", and E-acute
ExtensionInputs ==
    { << 112, 121 >>, << 46, 112, 121 >>, << 46, 80, 89 >>, << 80, 121 >>,
      << 116, 120, 116 >>, << 46, 84, 88, 84 >>, <<>>, << 46 >>,
      << 109, 100 >>, << 46, 77, 100 >>, << 99 >>, << 46, 67 >>, << 46, 46 >>, << 201 >> }

\* lists handed to set_extensions
ExtensionLists ==
    { <<>>,
      << << 112, 121 >>, << 46, 80, 89 >> >>,
      << << 46, 84, 88, 84 >>, << 109, 100 >> >>,
      << << 46, 67 >>, << 112, 121 >>, <<>> >> }

\* the normalized form of an extension as the documentation states it:
\* lowercased, with a leading dot
NormalizedForm(x) ==
    IF Len(x) > 0 /\ x[1] = 46 THEN lower(x) ELSE << 46 >> \o lower(x)

FilterInit == AllIdle

AddExtension ==
    /\ \E x \in ExtensionInputs :
          /\ filt' = add_extension(filt, x)
          /\ live' = live \cup { NormalizedForm(x) }
          /\ fLast' = [op |-> "add_extension", arg |-> << x >>, before |-> filt]
    /\ UNCHANGED <<cryptoVars, repoVars, entryVars, filesVars, uiVars>>

RemoveExtension ==
    /\ \E x \in ExtensionInputs :
          /\ filt' = remove_extension(filt, x)
          /\ live' = live \ { NormalizedForm(x) }
          /\ fLast' = [op |-> "remove_extension", arg |-> << x >>, before |-> filt]
    /\ UNCHANGED <<cryptoVars, repoVars, entryVars, filesVars, uiVars>>

SetExtensions ==
    /\ \E l \in ExtensionLists :
          /\ filt' = set_extensions(l)
          /\ live' = { NormalizedForm(l[i]) : i \in 1..Len(l) }
          /\ fLast' = [op |-> "set_extensions", arg |-> l, before |-> filt]
    /\ UNCHANGED <<cryptoVars, repoVars, entryVars, filesVars, uiVars>>

Clear ==
    /\ filt' = {}
    /\ live' = {}
    /\ fLast' = [op |-> "clear", arg |-> <<>>, before |-> filt]
    /\ UNCHANGED <<cryptoVars, repoVars, entryVars, filesVars, uiVars>>

FilterNext == AddExtension \/ RemoveExtension \/ SetExtensions \/ Clear

SpecFilter == FilterInit /\ [][FilterNext]_vars

\* C26: after any sequence of add_extension, remove_extension,
\* set_extensions and clear calls every stored extension is lowercase and
\* starts with '.', get_extensions() is sorted and duplicate-free and lists
\* the stored set, `x in filter` holds exactly when the normalized form of x
\* was added and not removed, cleared or replaced since, and adding an
\* extension that is already present leaves the filter unchanged.
C26_FilterNormalized ==
    /\ \A e \in filt : e = lower(e) /\ Len(e) > 0 /\ e[1] = 46
    /\ Len(get_extensions(filt)) = Cardinality(filt)
    /\ { get_extensions(filt)[i] : i \in 1..Len(get_extensions(filt)) } = filt
    /\ \A i \in 1..Len(get_extensions(filt)) : \A j \in 1..Len(get_extensions(filt)) :
          i < j => StrLess(get_extensions(filt)[i], get_extensions(filt)[j])
    /\ \A x \in ExtensionInputs : Filter_contains(filt, x) <=> NormalizedForm(x) \in live
    /\ (fLast.op = "add_extension" /\ NormalizedForm(fLast.arg[1]) \in fLast.before)
          => filt = fLast.before

\* ".py" is in the filter, added as "Py" when ".py" was already there, next
\* to ".txt" and "."
C26_Witness ==
    /\ fLast.op = "add_extension"
    /\ fLast.arg = << << 80, 121 >> >>
    /\ << 46, 112, 121 >> \in fLast.before
    /\ filt = { << 46 >>, << 46, 112, 121 >>, << 46, 116, 120, 116 >> }

(***************************************************************************)
(* Scan and recreate scenario: ScanDirectoryUseCase.execute over a         *)
(* directory tree read through FileSystemService, and                      *)
(* RecreateDirectoryUseCase.execute of a snapshot into an output root.     *)
(* Progress and log callbacks are recorded in call order.                  *)
(***************************************************************************)
MaxTreeFiles == 3

\* os.path.dirname splits at '/', on a backslash host also at '\\'
IsSep(c, sep) == c = 47 \/ (sep = 92 /\ c = 92)

\* os.path.join(a, b): an absolute b discards a
path_join(a, b, sep) ==
    IF Len(b) > 0 /\ IsSep(b[1], sep) THEN b ELSE a \o << sep >> \o b

\* the dirpath os.walk yields for the directory of the given names below root
RECURSIVE walk_dirpath(_, _, _)
walk_dirpath(root_path, names, sep) ==
    IF names = <<>> THEN root_path
    ELSE walk_dirpath(path_join(root_path, Head(names), sep), Tail(names), sep)

\* os.path.relpath(path, start) for a path below start
relpath(path, start) == SubSeq(path, Len(start) + 2, Len(path))

\* shared.utils.get_relative_path
get_relative_path(file_path, root_path, sep) ==
    normalize_path(relpath(file_path, root_path), sep)

\* the position of the last '.' of a name, 0 if it has none
LastDot(name) ==
    IF \E i \in 1..Len(name) : name[i] = 46
    THEN CHOOSE i \in 1..Len(name) : name[i] = 46 /\ \A j \in (i + 1)..Len(name) : name[j] # 46
    ELSE 0

\* os.path.splitext(filename)[1]: from the last dot on, unless only dots
\* precede it
splitext_ext(filename, dot) ==
    IF dot = 0 \/ \A j \in 1..(dot - 1) : filename[j] = 46 THEN <<>>
    ELSE SubSeq(filename, dot, Len(filename))

\* shared.utils.get_file_extension
get_file_extension(filename) == lower(splitext_ext(filename, LastDot(filename)))

\* the position of the last separator of a path, 0 if it has none
LastSep(path, sep) ==
    IF \E i \in 1..Len(path) : IsSep(path[i], sep)
    THEN CHOOSE i \in 1..Len(path) :
            IsSep(path[i], sep) /\ \A j \in (i + 1)..Len(path) : ~IsSep(path[j], sep)
    ELSE 0

\* head.rstrip of the separators, unless the head is separators only
RECURSIVE rstrip_seps(_, _)
rstrip_seps(head, sep) ==
    IF \A i \in 1..Len(head) : IsSep(head[i], sep) THEN head
    ELSE IF IsSep(head[Len(head)], sep) THEN rstrip_seps(SubSeq(head, 1, Len(head) - 1), sep)
    ELSE head

\* os.path.dirname
dirname(path, sep) == rstrip_seps(SubSeq(path, 1, LastSep(path, sep)), sep)

\* the extension test of list_files, on the request's extensions as given
list_files_match_NoLower(filename, extensions) ==
    \E i \in 1..Len(extensions) : get_file_extension(filename) = extensions[i]

\* the extension test of list_files: ext in extensions_lower
list_files_match(filename, extensions) ==
    \E i \in 1..Len(extensions) : get_file_extension(filename) = lower(extensions[i])

\* the filenames os.walk yields for one directory, in name order
walk_filenames(t, names) == sorted({ f.name : f \in { g \in t.files : g.dir = names } })

\* the inner loop of list_files over the filenames of one directory
RECURSIVE list_files_dir(_, _, _, _, _, _)
list_files_dir(dirpath, filenames, i, extensions, sep, acc) ==
    IF i > Len(filenames) THEN acc
    ELSE IF list_files_match(filenames[i], extensions)
    THEN list_files_dir(dirpath, filenames, i + 1, extensions, sep,
                        Append(acc, path_join(dirpath, filenames[i], sep)))
    ELSE list_files_dir(dirpath, filenames, i + 1, extensions, sep, acc)

\* the second pass of list_files over the directories os.walk yields
RECURSIVE list_files_walk(_, _, _, _, _, _)
list_files_walk(t, root_path, d, extensions, sep, acc) ==
    IF d > Len(t.dirs) THEN acc
    ELSE list_files_walk(t, root_path, d + 1, extensions, sep,
            list_files_dir(walk_dirpath(root_path, t.dirs[d], sep),
                           walk_filenames(t, t.dirs[d]), 1, extensions, sep, acc))

\* the first pass of list_files: the number of matching files
list_files_total(t, extensions) ==
    Cardinality({ f \in t.files : list_files_match(f.name, extensions) })

\* one progress_callback(current, total) call
Progress(current, total) == [current |-> current, total |-> total]

\* FileSystemService.list_files: the paths returned and the progress calls
\* made, progress_callback(0, total) and one call per matching file
list_files_result(matching_files, total_files) ==
    [paths    |-> matching_files,
     progress |-> << Progress(0, total_files) >>
                     \o [k \in 1..Len(matching_files) |-> Progress(k, total_files)]]

list_files(t, root_path, extensions, sep) ==
    list_files_result(list_files_walk(t, root_path, 1, extensions, sep, <<>>),
                      list_files_total(t, extensions))

\* the while loop of execute that adds a directory and its parents
RECURSIVE scan_parents(_, _, _)
scan_parents(dir_path, sep, directories_set) ==
    IF Len(dir_path) = 0 \/ dir_path = << 46 >> THEN directories_set
    ELSE scan_parents(dirname(dir_path, sep), sep, directories_set \cup { dir_path })

\* the loop of execute that collects the directories of the file paths
RECURSIVE scan_directories(_, _, _, _, _)
scan_directories(file_paths, i, root_path, sep, directories_set) ==
    IF i > Len(file_paths) THEN directories_set
    ELSE scan_directories(file_paths, i + 1, root_path, sep,
            scan_parents(dirname(get_relative_path(file_paths[i], root_path, sep), sep),
                         sep, directories_set))

\* the loop of execute over sorted(directories_set)
RECURSIVE scan_add_directories(_, _, _, _)
scan_add_directories(snapshot, dir_paths, i, sep) ==
    IF i > Len(dir_paths) THEN snapshot
    ELSE scan_add_directories(add_directory(snapshot, dir_paths[i], sep), dir_paths, i + 1, sep)

\* one log_callback call: what it reports and about which path or count
Log(tag, about) == [tag |-> tag, about |-> about]

\* the file of the tree at a path list_files returned
TreeFileAt(t, root_path, path, sep) ==
    CHOOSE f \in t.files : path_join(walk_dirpath(root_path, f.dir, sep), f.name, sep) = path

\* FileSystemService.read_file
read_file(f) ==
    IF f.readable THEN Return(f.content)
    ELSE Raise("FileSystemError", "Failed to read file")

\* the try block of the file loop, with content the outcome of read_file
scan_file(st, file_path, rel_path, content, idx, total_files, sep) ==
    IF content.kind = "raise"
    THEN [st EXCEPT !.log = Append(@, Log("error", file_path))]
    ELSE [snapshot |-> add_file(st.snapshot,
                          set_encoded_content(FileEntry(rel_path, content.value, sep),
                                              encoder_encode(content.value))),
          log      |-> Append(st.log, Log("encode", rel_path)),
          progress |-> Append(st.progress, Progress(idx, total_files))]

\* the file loop of execute
RECURSIVE scan_files(_, _, _, _, _, _)
scan_files(st, t, file_paths, idx, root_path, sep) ==
    IF idx > Len(file_paths) THEN st
    ELSE scan_files(
            scan_file(st, file_paths[idx],
                      get_relative_path(file_paths[idx], root_path, sep),
                      read_file(TreeFileAt(t, root_path, file_paths[idx], sep)),
                      idx, Len(file_paths), sep),
            t, file_paths, idx + 1, root_path, sep)

\* execute from the call of list_files on
scan_listed(t, root_path, listed, sep, now) ==
    scan_files(
        [snapshot |-> scan_add_directories(
                          DirectorySnapshot(JStr(root_path), now, JDict(<<>>)),
                          sorted(scan_directories(listed.paths, 1, root_path, sep, {})), 1, sep),
         log      |-> << Log("start", root_path), Log("found", << Len(listed.paths) >>) >>,
         progress |-> listed.progress],
        t, listed.paths, 1, root_path, sep)

\* what execute hands back after the file loop
scan_done(st) ==
    [o        |-> Return(st.snapshot),
     progress |-> st.progress,
     log      |-> Append(st.log, Log("complete", <<>>)),
     disk     |-> {}]

\* ScanDirectoryUseCase.execute
ScanDirectoryUseCase_execute(t, root_path, extensions, sep, now) ==
    IF ~t.exists
    THEN [o |-> Raise("FileSystemError", "Directory does not exist"),
          progress |-> <<>>, log |-> <<>>, disk |-> {}]
    ELSE scan_done(scan_listed(t, root_path, list_files(t, root_path, extensions, sep), sep, now))
\* the scanned root: "/r", or "\r" on a backslash host
ScanRoot(sep) == << sep, 114 >>

\* files a tree may hold, with distinct contents: a.py, B.PY, .py and n in
\* the root, s/d.txt, s/t/f.Py, u/g.log
TreeFile(names, name, content) ==
    [dir |-> names, name |-> name, content |-> content, readable |-> TRUE]

CandidateFiles ==
    { TreeFile(<<>>, << 97, 46, 112, 121 >>, << 1 >>),
      TreeFile(<<>>, << 66, 46, 80, 89 >>, << 2 >>),
      TreeFile(<<>>, << 46, 112, 121 >>, << 3 >>),
      TreeFile(<<>>, << 110 >>, <<>>),
      TreeFile(<< << 115 >> >>, << 100, 46, 116, 120, 116 >>, << 5 >>),
      TreeFile(<< << 115 >>, << 116 >> >>, << 102, 46, 80, 121 >>, << 6, 0 >>),
      TreeFile(<< << 117 >> >>, << 103, 46, 108, 111, 103 >>, << 7 >>) }

\* the directories of every tree, in the order os.walk visits them: the
\* root, s, s/t, u, and v, which is always empty
TreeDirs == << <<>>, << << 115 >> >>, << << 115 >>, << 116 >> >>, << << 117 >> >>, << << 118 >> >> >>

\* the trees: up to MaxTreeFiles of the candidate files, any of them
\* unreadable
Trees ==
    { [exists |-> TRUE, dirs |-> TreeDirs,
       files |-> { [f EXCEPT !.readable = (f \notin U)] : f \in S }] :
          S \in { X \in SUBSET CandidateFiles : Cardinality(X) <= MaxTreeFiles },
          U \in SUBSET CandidateFiles }

\* the extensions of the request: [".py"], [".PY"], [".txt", ".Py"],
\* ["py"], [".log"]
ExtensionRequests ==
    { << << 46, 112, 121 >> >>, << << 46, 80, 89 >> >>,
      << << 46, 116, 120, 116 >>, << 46, 80, 121 >> >>,
      << << 112, 121 >> >>, << << 46, 108, 111, 103 >> >> }

FilesInit == RepoInit

\* ScanDirectoryUseCase.execute(ScanRequest(root, extensions, callbacks))
Scan ==
    /\ spc = "idle"
    /\ \E t \in Trees \cup { NoTree }, x \in ExtensionRequests, now \in ClockTicks :
          /\ tree' = t
          /\ scanExt' = x
          /\ scan' = ScanDirectoryUseCase_execute(t, ScanRoot(ossep), x, ossep, now)
    /\ spc' = "scanned"
    /\ UNCHANGED <<recIn, rec>>
    /\ UNCHANGED <<cryptoVars, repoVars, entryVars, filterVars, uiVars>>
MaxRecreateFiles == 2

\* the names of a path, split at the host's separators
RECURSIVE SplitNames(_, _, _, _, _)
SplitNames(path, sep, i, name, names) ==
    IF i > Len(path) THEN Append(names, name)
    ELSE IF IsSep(path[i], sep) THEN SplitNames(path, sep, i + 1, <<>>, Append(names, name))
    ELSE SplitNames(path, sep, i + 1, Append(name, path[i]), names)

\* the directory walk the operating system makes for an absolute path: ''
\* and '.' stay, '..' goes up (the root is its own parent)
RECURSIVE ResolveNames(_, _, _)
ResolveNames(names, i, at) ==
    IF i > Len(names) THEN at
    ELSE IF names[i] = <<>> \/ names[i] = << 46 >> THEN ResolveNames(names, i + 1, at)
    ELSE IF names[i] = << 46, 46 >>
    THEN ResolveNames(names, i + 1, SubSeq(at, 1, IF Len(at) > 0 THEN Len(at) - 1 ELSE 0))
    ELSE ResolveNames(names, i + 1, Append(at, names[i]))

\* the place an absolute path names, as the names from the file system root
Resolve(path, sep) == ResolveNames(SplitNames(path, sep, 1, <<>>, <<>>), 1, <<>>)

\* the operating system refuses to create a directory or to open a file at
\* a place when the place or one above it is refused
Refused(place, refused) ==
    \E k \in 1..Len(place) : SubSeq(place, 1, k) \in refused

DirAt(place) == [place |-> place, kind |-> "dir", content |-> <<>>]

FileAt(place, content) == [place |-> place, kind |-> "file", content |-> content]

\* os.makedirs(path, exist_ok=True): the place and the places above it
MadeDirs(place) == { DirAt(SubSeq(place, 1, k)) : k \in 1..Len(place) }

\* FileSystemService.create_directory: the outcome and the disk afterwards
create_directory(disk, path, refused, sep) ==
    IF Refused(Resolve(path, sep), refused)
    THEN [o |-> Raise("FileSystemError", "Failed to create directory"), disk |-> disk]
    ELSE [o |-> Return(TRUE), disk |-> disk \cup MadeDirs(Resolve(path, sep))]

\* write_file after create_directory(parent_dir) ended with made: open and
\* write, an earlier file at the place is replaced
write_file_open(made, path, content, refused, sep) ==
    IF made.o.kind = "raise" THEN made
    ELSE IF Refused(Resolve(path, sep), refused)
    THEN [o |-> Raise("FileSystemError", "Failed to write file"), disk |-> made.disk]
    ELSE [o    |-> Return(TRUE),
          disk |-> { r \in made.disk : r.place # Resolve(path, sep) }
                       \cup { FileAt(Resolve(path, sep), content) }]

\* FileSystemService.write_file
write_file(disk, path, content, refused, sep) ==
    IF Len(dirname(path, sep)) > 0
    THEN write_file_open(create_directory(disk, dirname(path, sep), refused, sep),
                         path, content, refused, sep)
    ELSE write_file_open([o |-> Return(TRUE), disk |-> disk], path, content, refused, sep)

\* relative_path.replace('/', os.sep)
to_os_path(relative_path, sep) ==
    [i \in 1..Len(relative_path) |-> IF relative_path[i] = 47 THEN sep ELSE relative_path[i]]

\* the body of the directory loop, with made the outcome of create_directory
recreate_dir(st, relative_path, made) ==
    IF made.o.kind = "raise"
    THEN [st EXCEPT !.log = Append(@, Log("error_dir", relative_path))]
    ELSE [st EXCEPT !.disk = made.disk, !.dir_count = @ + 1]

\* the directory loop of execute
RECURSIVE recreate_dirs(_, _, _, _, _, _)
recreate_dirs(st, directories, i, output_path, refused, sep) ==
    IF i > Len(directories) THEN st
    ELSE recreate_dirs(
            recreate_dir(st, directories[i],
                create_directory(st.disk,
                    path_join(output_path, to_os_path(directories[i], sep), sep),
                    refused, sep)),
            directories, i + 1, output_path, refused, sep)

\* the body of the file loop, with written the outcome of write_file
recreate_file(st, relative_path, written, total_files) ==
    IF written.o.kind = "raise"
    THEN [st EXCEPT !.log = Append(@, Log("error", relative_path))]
    ELSE [st EXCEPT !.disk = written.disk,
                    !.processed = @ + 1,
                    !.log = Append(@, Log("decode", relative_path)),
                    !.progress = Append(@, Progress(st.processed + 1, total_files))]

\* the file loop ended by the first write that fails
RECURSIVE recreate_files_StopAtError(_, _, _, _, _, _)
recreate_files_StopAtError(st, files, i, output_path, refused, sep) ==
    IF i > Len(files) THEN st
    ELSE IF write_file(st.disk,
                path_join(output_path, to_os_path(files[i].relative_path, sep), sep),
                files[i].content, refused, sep).o.kind = "raise"
    THEN [st EXCEPT !.log = Append(@, Log("error", files[i].relative_path))]
    ELSE recreate_files_StopAtError(
            recreate_file(st, files[i].relative_path,
                write_file(st.disk,
                    path_join(output_path, to_os_path(files[i].relative_path, sep), sep),
                    files[i].content, refused, sep),
                Len(files)),
            files, i + 1, output_path, refused, sep)

\* the file loop of execute
RECURSIVE recreate_files(_, _, _, _, _, _)
recreate_files(st, files, i, output_path, refused, sep) ==
    IF i > Len(files) THEN st
    ELSE recreate_files(
            recreate_file(st, files[i].relative_path,
                write_file(st.disk,
                    path_join(output_path, to_os_path(files[i].relative_path, sep), sep),
                    files[i].content, refused, sep),
                Len(files)),
            files, i + 1, output_path, refused, sep)

\* execute, from progress_callback(0, total_files) on
recreate_progress0(st, total_files) ==
    [st EXCEPT !.progress = Append(@, Progress(0, total_files))]

\* what execute leaves behind when it returns
recreate_done(st) ==
    [o        |-> Return(TRUE),
     progress |-> st.progress,
     log      |-> Append(st.log, Log("complete", << st.dir_count, st.processed >>)),
     disk     |-> st.disk]

\* execute after create_directory(output_path) ended with made
recreate_rooted(snapshot, output_path, made, refused, sep) ==
    IF made.o.kind = "raise"
    THEN [o |-> made.o, progress |-> <<>>,
          log |-> << Log("start", output_path) >>, disk |-> made.disk]
    ELSE recreate_done(
            recreate_files(
                recreate_progress0(
                    recreate_dirs([disk |-> made.disk, log |-> << Log("start", output_path) >>,
                                   progress |-> <<>>, processed |-> 0, dir_count |-> 0],
                                  snapshot.directories, 1, output_path, refused, sep),
                    Len(snapshot.files)),
                snapshot.files, 1, output_path, refused, sep))

\* RecreateDirectoryUseCase.execute
RecreateDirectoryUseCase_execute(snapshot, output_path, refused, sep) ==
    recreate_rooted(snapshot, output_path,
                    create_directory({}, output_path, refused, sep), refused, sep)

\* the output root: "/o", or "\o" on a backslash host
OutputRoot(sep) == << sep, 111 >>

\* relative paths of the file entries: "a", "s/b", "../x", "/e"
RecreateFilePaths ==
    { << 97 >>, << 115, 47, 98 >>, << 46, 46, 47, 120 >>, << 47, 101 >> }

\* relative paths of the directory entries: "s", "t/w", "../d"
RecreateDirPaths == { << 115 >>, << 116, 47, 119 >>, << 46, 46, 47, 100 >> }

\* the snapshot with the given file paths and directory paths; the content
\* of a file is its path
RECURSIVE SnapshotOf(_, _, _, _)
SnapshotOf(snapshot, paths, dirs, sep) ==
    IF Len(dirs) > 0 THEN SnapshotOf(add_directory(snapshot, Head(dirs), sep), paths, Tail(dirs), sep)
    ELSE IF Len(paths) > 0
    THEN SnapshotOf(add_file(snapshot, FileEntry(Head(paths), Head(paths), sep)),
                    Tail(paths), dirs, sep)
    ELSE snapshot

\* the snapshots handed to recreate: those of the paths above that pass
\* validate()
RecreateSnapshots(sep) ==
    { s \in { SnapshotOf(DirectorySnapshot(JStr(<< 47, 114 >>), 12, JDict(<<>>)), p, d, sep) :
                 p \in SeqsUpTo(RecreateFilePaths, MaxRecreateFiles),
                 d \in SeqsUpTo(RecreateDirPaths, 1) } :
          validate(s).kind = "return" }

\* places the operating system may refuse: the output root, a, s, s/b, t
RefusablePlaces ==
    { << << 111 >> >>, << << 111 >>, << 97 >> >>, << << 111 >>, << 115 >> >>,
      << << 111 >>, << 115 >>, << 98 >> >>, << << 111 >>, << 116 >> >> }

\* RecreateDirectoryUseCase.execute(RecreateRequest(snapshot, output_path,
\* callbacks)) on an empty disk
Recreate ==
    /\ spc = "idle"
    /\ \E s \in RecreateSnapshots(ossep), refused \in SUBSET RefusablePlaces :
          /\ Cardinality(refused) <= 2
          /\ recIn' = [snapshot |-> s, output_path |-> OutputRoot(ossep), refused |-> refused]
          /\ rec' = RecreateDirectoryUseCase_execute(s, OutputRoot(ossep), refused, ossep)
    /\ spc' = "recreated"
    /\ UNCHANGED <<tree, scanExt, scan>>
    /\ UNCHANGED <<cryptoVars, repoVars, entryVars, filterVars, uiVars>>

FilesReset ==
    /\ spc \in { "scanned", "recreated" }
    /\ spc' = "idle"
    /\ tree' = NoTree
    /\ scanExt' = <<>>
    /\ scan' = NoRun
    /\ recIn' = NoRecreate
    /\ rec' = NoRun
    /\ UNCHANGED <<cryptoVars, repoVars, entryVars, filterVars, uiVars>>

FilesNext == Scan \/ Recreate \/ FilesReset

SpecFiles == FilesInit /\ [][FilesNext]_vars

\* names joined by '/'
RECURSIVE SlashPath(_)
SlashPath(names) ==
    IF Len(names) = 0 THEN <<>>
    ELSE IF Len(names) = 1 THEN names[1]
    ELSE names[1] \o << 47 >> \o SlashPath(Tail(names))

\* the path of a file of the tree relative to the root, with forward slashes
TreePath(f) == SlashPath(Append(f.dir, f.name))

\* the files of the scanned tree whose extension is in the requested set,
\* letter case ignored
MatchingFiles ==
    { f \in tree.files :
          \E i \in 1..Len(scanExt) : lower(get_file_extension(f.name)) = lower(scanExt[i]) }

\* the directories of the tree above at least one of the files F
AncestorDirs(F) ==
    UNION { { SlashPath(SubSeq(f.dir, 1, k)) : k \in 1..Len(f.dir) } : f \in F }

\* the files of the scanned snapshot are the files F, each once, and its
\* directories are those above the matching files, each once
ScannedExactly(F) ==
    /\ Len(scan.o.value.files) = Cardinality(F)
    /\ { scan.o.value.files[i].relative_path : i \in 1..Len(scan.o.value.files) }
          = { TreePath(f) : f \in F }
    /\ Len(scan.o.value.directories) = Cardinality(AncestorDirs(MatchingFiles))
    /\ { scan.o.value.directories[i] : i \in 1..Len(scan.o.value.directories) }
          = AncestorDirs(MatchingFiles)

\* C22: for every tree and every extension set, execute returns a snapshot
\* whose files are exactly the files of the tree whose extension matches the
\* set case-insensitively, and whose directories are exactly the directories
\* above at least one matching file.
C22_ExactlyMatching ==
    (spc = "scanned" /\ scan.o.kind = "return") => ScannedExactly(MatchingFiles)

\* C22 (amended): the files are exactly the matching files whose read
\* succeeded; the directories are exactly the directories above at least
\* one matching file, read or not.
C22_ExactlyMatchingRead ==
    (spc = "scanned" /\ scan.o.kind = "return")
        => ScannedExactly({ f \in MatchingFiles : f.readable })

\* a scan for ".PY" of a tree with B.PY, s/t/f.Py that cannot be read, and
\* u/g.log
C22_Witness ==
    /\ spc = "scanned"
    /\ scanExt = << << 46, 80, 89 >> >>
    /\ { TreePath(f) : f \in MatchingFiles }
          = { << 66, 46, 80, 89 >>, << 115, 47, 116, 47, 102, 46, 80, 121 >> }
    /\ \E f \in tree.files : f.dir = << << 117 >> >>
    /\ \E f \in MatchingFiles : ~f.readable /\ f.dir # <<>>
    /\ Len(scan.o.value.files) = 1
    /\ scan.o.value.directories = << << 115 >>, << 115, 47, 116 >> >>

\* the progress calls have one total, 0 <= current <= total in every call,
\* and a current that never decreases
ProgressOrdered(p) ==
    \A i \in 1..Len(p) :
        /\ p[i].total = p[1].total
        /\ 0 <= p[i].current
        /\ p[i].current <= p[i].total
        /\ i > 1 => p[i - 1].current <= p[i].current

\* C23: during one scan and during one recreate the progress callbacks have
\* a single total, 0 <= current <= total in every call, and current values
\* that never decrease from one call to the next.
C23_ProgressOrdered ==
    /\ spc = "scanned" => ProgressOrdered(scan.progress)
    /\ spc = "recreated" => ProgressOrdered(rec.progress)

\* the place recreate writes the file entry e to
TargetPlace(e) ==
    Resolve(path_join(recIn.output_path, to_os_path(e.relative_path, ossep), ossep), ossep)

\* some log call reports the tag about the path
Logged(log, tag, about) ==
    \E i \in 1..Len(log) : log[i].tag = tag /\ log[i].about = about

\* C24: a scan of an existing root and a recreate into a root that can be
\* made return although reads or writes of some files fail; every other
\* file is captured with its content, or written with its content, and
\* every failing file is reported through the log callback.
C24_FailuresSkipped ==
    /\ (spc = "scanned" /\ tree.exists)
          => /\ scan.o.kind = "return"
             /\ \A f \in MatchingFiles :
                   IF f.readable
                   THEN \E i \in 1..Len(scan.o.value.files) :
                           /\ scan.o.value.files[i].relative_path = TreePath(f)
                           /\ scan.o.value.files[i].content = f.content
                   ELSE Logged(scan.log, "error",
                               path_join(walk_dirpath(ScanRoot(ossep), f.dir, ossep),
                                         f.name, ossep))
    /\ (spc = "recreated" /\ ~Refused(Resolve(recIn.output_path, ossep), recIn.refused))
          => /\ rec.o.kind = "return"
             /\ \A i \in 1..Len(recIn.snapshot.files) :
                   IF Refused(TargetPlace(recIn.snapshot.files[i]), recIn.refused)
                   THEN Logged(rec.log, "error", recIn.snapshot.files[i].relative_path)
                   ELSE FileAt(TargetPlace(recIn.snapshot.files[i]),
                               recIn.snapshot.files[i].content) \in rec.disk

\* a recreate whose first write is refused and whose second is made
C24_Witness ==
    /\ spc = "recreated"
    /\ Len(recIn.snapshot.files) = 2
    /\ Refused(TargetPlace(recIn.snapshot.files[1]), recIn.refused)
    /\ ~Refused(TargetPlace(recIn.snapshot.files[2]), recIn.refused)
    /\ FileAt(TargetPlace(recIn.snapshot.files[2]), recIn.snapshot.files[2].content) \in rec.disk
    /\ rec.o.kind = "return"

\* C25: every directory created and every file written by recreate of a
\* snapshot that passes validate() is located under the output root.
C25_UnderOutputRoot ==
    spc = "recreated"
        => \A r \in rec.disk :
              /\ Len(r.place) >= Len(Resolve(recIn.output_path, ossep))
              /\ SubSeq(r.place, 1, Len(Resolve(recIn.output_path, ossep)))
                    = Resolve(recIn.output_path, ossep)

(***************************************************************************)
(* View scenario: a CopyViewModel or a PasteViewModel starts operations on *)
(* AsyncWorkers of its thread pool; the signals a worker emits are queued  *)
(* for the view model's thread and delivered in order.  In the copy        *)
(* workflow the first operation is started by CopyWidget's Create Snapshot *)
(* button and the scan result is handed back to the widget.                *)
(***************************************************************************)
MaxWorkers == 2

\* the operations of the view models and the use case each one runs
CopyOps == { "scan", "save" }

PasteOps == { "load", "recreate" }

\* what the wrapped function does: ScanDirectoryUseCase.execute and
\* LoadSnapshotUseCase.execute return a DirectorySnapshot,
\* SaveSnapshotUseCase.execute and RecreateDirectoryUseCase.execute return
\* None, each of them may raise
Returned(none) == [kind |-> "return", none |-> none]

Raised == [kind |-> "raise", none |-> FALSE]

NotRun == [kind |-> "none", none |-> FALSE]

FnOutcomes(op) == { Returned(op \in { "save", "recreate" }), Raised }

\* the signals AsyncWorker.run emits when fn always reports a result
AsyncWorker_run_AlwaysResult(o) ==
    IF o.kind = "raise" THEN << "error", "finished" >>
    ELSE << "result", "finished" >>

\* AsyncWorker.run: the signals it emits, in order
AsyncWorker_run(o) ==
    IF o.kind = "raise" THEN << "error", "finished" >>
    ELSE IF ~o.none THEN << "result", "finished" >>
    ELSE << "finished" >>

\* AsyncWorker(fn, ...) handed to the thread pool
NewWorker(op) == [op |-> op, done |-> FALSE, o |-> NotRun, emitted |-> <<>>]

\* the snapshot of the view scenario: /r with the file a
UiSnapshot ==
    add_file(DirectorySnapshot(JStr(<< 47, 114 >>), 12, JDict(<<>>)),
             FileEntry(<< 97 >>, << 1 >>, 47))

\* what SaveSnapshotUseCase.execute(snapshot, path) leaves at the path
UiSavedFs == SaveSnapshotUseCase_execute(UiSnapshot, EmptyFs, ForeignSalt, ForeignNonce, "ok").fs

\* the password typed into the dialog: "password"
EnteredPassword == << 112, 97, 115, 115, 119, 111, 114, 100 >>

\* PasswordDialog.get_encryption_password: the password, '' when cancelled
get_encryption_password(dialog) ==
    IF dialog = "accepted" THEN SomePw(EnteredPassword) ELSE SomePw(<<>>)

\* the password of _on_scan_clicked before its `is None` test
clicked_password(box, dialog) ==
    IF box THEN get_encryption_password(dialog) ELSE NonePw

\* the parameters of CopyViewModel.save_snapshot after self
save_snapshot_params == << "snapshot", "path" >>

\* the call self._viewmodel.save_snapshot(*args): more positional
\* arguments than parameters raise TypeError before the body runs
CopyViewModel_save_snapshot(args) ==
    IF Len(args) > Len(save_snapshot_params)
    THEN Raise("TypeError", "save_snapshot() takes 3 positional arguments but 4 were given")
    ELSE Return(NoValue)

\* the slot of the view model a signal of a worker of op is connected to
SlotOf(op, signal) ==
    IF signal = "finished" THEN "_on_operation_finished"
    ELSE IF signal = "error" THEN "_on_" \o op \o "_error"
    ELSE "_on_" \o op \o "_completed"

UiInit == AllIdle

\* the body of scan_directory, save_snapshot, load_snapshot and
\* recreate_directory: operation_active.emit(True), then the worker is
\* handed to the thread pool
StartOperation(op) ==
    /\ active' = Append(active, TRUE)
    /\ workers' = Append(workers, NewWorker(op))

\* CopyWidget._on_scan_clicked with valid paths and extensions; the button
\* is enabled while the last operation_active value is not True
ScanClicked ==
    /\ upc = "idle"
    /\ \E box \in BOOLEAN, dialog \in { "accepted", "cancelled" } :
          /\ box \/ dialog = "accepted"
          /\ widget' = [clicked |-> TRUE, checked |-> box,
                        dialog |-> IF box THEN dialog ELSE "none",
                        password |-> clicked_password(box, dialog),
                        raised |-> NoOutcome]
          /\ IF clicked_password(box, dialog) = NonePw /\ box
             THEN UNCHANGED <<upc, vm, workers, active>>
             ELSE /\ StartOperation("scan")
                  /\ upc' = "running"
                  /\ vm' = "copy"
    /\ UNCHANGED <<events, handled, container>>
    /\ UNCHANGED <<cryptoVars, repoVars, entryVars, filterVars, filesVars>>

\* a caller other than the widget starts an operation of a view model
\* while any of its operations may be running
Start ==
    /\ ~widget.clicked
    /\ Len(workers) < MaxWorkers
    /\ \E op \in CopyOps \cup PasteOps :
          /\ vm = "none" \/ (vm = "copy" /\ op \in CopyOps) \/ (vm = "paste" /\ op \in PasteOps)
          /\ vm' = IF op \in CopyOps THEN "copy" ELSE "paste"
          /\ StartOperation(op)
    /\ upc' = "running"
    /\ UNCHANGED <<events, handled, widget, container>>
    /\ UNCHANGED <<cryptoVars, repoVars, entryVars, filterVars, filesVars>>

\* a pool thread runs a worker: fn is called and the signals are emitted
Run ==
    /\ \E w \in 1..Len(workers), o \in UNION { FnOutcomes(op) : op \in CopyOps \cup PasteOps } :
          /\ ~workers[w].done
          /\ o \in FnOutcomes(workers[w].op)
          /\ workers' = [workers EXCEPT ![w] = [@ EXCEPT !.done = TRUE, !.o = o,
                                                         !.emitted = AsyncWorker_run(o)]]
          /\ events' = events \o [k \in 1..Len(AsyncWorker_run(o)) |->
                                     [worker |-> w, signal |-> AsyncWorker_run(o)[k]]]
          /\ container' = IF workers[w].op = "save" /\ o.kind = "return"
                          THEN [written |-> TRUE, data |-> UiSavedFs.data]
                          ELSE container
    /\ UNCHANGED <<upc, vm, active, handled, widget>>
    /\ UNCHANGED <<cryptoVars, repoVars, entryVars, filterVars, filesVars>>

\* CopyWidget._on_scan_completed, the slot of scan_completed: the auto-save
\* call with the stored password
Widget_on_scan_completed(call) ==
    IF call.kind = "raise"
    THEN /\ widget' = [widget EXCEPT !.raised = call]
         /\ UNCHANGED <<workers, active>>
    ELSE /\ widget' = [widget EXCEPT !.password = NonePw]
         /\ StartOperation("save")

\* the view model's thread delivers the oldest queued signal to its slot
Deliver ==
    /\ Len(events) > 0
    /\ events' = Tail(events)
    /\ handled' = Append(handled, SlotOf(workers[Head(events).worker].op, Head(events).signal))
    /\ IF Head(events).signal = "finished"
       THEN /\ active' = Append(active, FALSE)
            /\ UNCHANGED <<workers, widget>>
       ELSE IF Head(events).signal = "result" /\ workers[Head(events).worker].op = "scan"
                 /\ widget.clicked
       THEN Widget_on_scan_completed(
                CopyViewModel_save_snapshot(<< "snapshot", "json_path", "password" >>))
       ELSE UNCHANGED <<workers, active, widget>>
    /\ UNCHANGED <<upc, vm, container>>
    /\ UNCHANGED <<cryptoVars, repoVars, entryVars, filterVars, filesVars>>

\* every worker has run and every signal is delivered
UiQuiet ==
    /\ upc = "running"
    /\ Len(events) = 0
    /\ \A w \in 1..Len(workers) : workers[w].done

UiReset ==
    /\ UiQuiet
    /\ upc' = "idle"
    /\ vm' = "none"
    /\ workers' = <<>>
    /\ events' = <<>>
    /\ active' = <<>>
    /\ handled' = <<>>
    /\ widget' = NoClick
    /\ container' = NoContainer
    /\ UNCHANGED <<cryptoVars, repoVars, entryVars, filterVars, filesVars>>

UiNext == ScanClicked \/ Start \/ Run \/ Deliver \/ UiReset

SpecUi == UiInit /\ [][UiNext]_vars

\* a signal has been delivered to the slot
Reached(slot) == \E k \in 1..Len(handled) : handled[k] = slot

\* C28: when the encryption box is checked at the click on Create Snapshot,
\* either the dialog was cancelled and no operation is started, or, once
\* the scan has succeeded and every signal is delivered, the auto-save has
\* written a container in the encrypted envelope form that decrypts under
\* the entered password; a container written is never plaintext
C28_EncryptedOrNothing ==
    (widget.clicked /\ widget.checked) =>
        /\ widget.dialog = "cancelled" => Len(workers) = 0
        /\ (UiQuiet /\ widget.dialog = "accepted" /\ workers[1].o = Returned(FALSE)) =>
               /\ container.written
               /\ decrypt(container.data, EnteredPassword).kind = "return"
        /\ container.written => is_encrypted(container.data)

\* C29: while a started worker has not yet emitted finished, the last
\* operation_active value emitted is True
C29_ActiveWhileRunning ==
    (\E w \in 1..Len(workers) : ~workers[w].done) =>
        (Len(active) > 0 /\ active[Len(active)])

\* C30: every worker that has run emitted result or error and then
\* finished, and once its signals are delivered a successful operation has
\* reached its completion handler and a failed one its error handler
C30_ResultOrErrorThenFinished ==
    \A w \in 1..Len(workers) :
        workers[w].done =>
            /\ Len(workers[w].emitted) = 2
            /\ workers[w].emitted[1] = (IF workers[w].o.kind = "raise" THEN "error" ELSE "result")
            /\ workers[w].emitted[2] = "finished"
            /\ UiQuiet => Reached(SlotOf(workers[w].op, workers[w].emitted[1]))

====
